---- MODULE Spec2Model ----
(***************************************************************************)
(* A model of the signal-scoring and trade-parameter engine of             *)
(* crypto_analysis: the signal rule set and composite scorer               *)
(* (trading_strategy_creator.py, batch_processor.py, lambda_function.py)   *)
(* and the two trade-parameter strategies (entry_exit_point_generator.py). *)
(*                                                                         *)
(* Numbers are Python floats, so every arithmetic step is modelled as an   *)
(* IEEE-754 binary64 operation with round-to-nearest-even; the mantissa is *)
(* an arbitrary-size natural kept in limbs because TLC's integers are      *)
(* 32 bits wide.  Exponents are not bounded: no value of the model comes   *)
(* near the overflow or subnormal range of binary64.                       *)
(***************************************************************************)
EXTENDS Integers, Sequences, FiniteSets

VARIABLES
  pc,          \* the stage the run has reached
  analysis,    \* per coin: the analysis frame (indicator rows) or no file
  strategies,  \* per coin: the strategy frame written by the scoring stage
  signals_df,  \* the ranked signal summary
  entry_exit,  \* per coin: the frame with entry/exit points
  points_df,   \* the ranked entry/exit summary
  rr,          \* the risk_reward_ratio argument of generate_entry_exit_points
  bars,        \* Strategy B: the klines fetched, oldest first
  frame,       \* Strategy B: the bars with their indicator columns
  signal,      \* Strategy B: what generate_signal returned
  trade,       \* Strategy B: what generate_trade_parameters returned
  lot_factor,  \* the PHASE_LOT_FACTOR table of the deployment, keyed by phase
  phase,       \* what get_phase returned
  balance,     \* the current account balance
  data,              \* per coin: the raw data file, or what the fetch task returned
  data_results,      \* batch: the coins of data_results
  analysis_results,  \* the coins of the result map of the indicator stage
  signal_results,    \* batch: the coins of signal_results
  futures,           \* batch: per stage and coin, the state of its task
  completed,         \* batch: the finished futures as_completed has yet to yield
  signal_summaries,  \* batch: the summaries appended so far
  runs,              \* the number of pipeline runs started
  summary_data,      \* the records handed to send_analysis_report
  notify,            \* what became of the LINE notification of the run
  response           \* lambda: the statusCode lambda_handler returned, 0 before it returns

strategyB == <<bars, frame, signal, trade>>

account == <<lot_factor, phase, balance>>

staging ==
  <<data, data_results, analysis_results, signal_results, futures, completed,
    signal_summaries, runs>>

outbox == <<summary_data, notify, response>>

vars ==
  <<pc, analysis, strategies, signals_df, entry_exit, points_df, rr, strategyB, account,
    outbox, staging>>

(* ---- natural numbers of any size: little-endian limbs in base 2^15 ---- *)
Base == 2^15

Limb(a, i) == IF i <= Len(a) THEN a[i] ELSE 0

RECURSIVE BNorm(_)
BNorm(a) == IF a = <<>> THEN <<>>
            ELSE IF a[Len(a)] = 0 THEN BNorm(SubSeq(a, 1, Len(a) - 1)) ELSE a

BFromInt(n) == BNorm(<<n % Base, (n \div Base) % Base, n \div (Base * Base)>>)

RECURSIVE BAddFrom(_, _, _, _)
BAddFrom(a, b, i, c) ==
  IF i > Len(a) /\ i > Len(b) THEN (IF c = 0 THEN <<>> ELSE <<c>>)
  ELSE LET s == Limb(a, i) + Limb(b, i) + c
       IN <<s % Base>> \o BAddFrom(a, b, i + 1, s \div Base)
BAdd(a, b) == BAddFrom(a, b, 1, 0)

RECURSIVE BSubFrom(_, _, _, _)
BSubFrom(a, b, i, br) ==
  IF i > Len(a) THEN <<>>
  ELSE LET d == a[i] - Limb(b, i) - br
       IN <<IF d < 0 THEN d + Base ELSE d>> \o BSubFrom(a, b, i + 1, IF d < 0 THEN 1 ELSE 0)
BSub(a, b) == BNorm(BSubFrom(a, b, 1, 0))

BCmp(a, b) ==
  IF Len(a) # Len(b) THEN (IF Len(a) < Len(b) THEN -1 ELSE 1)
  ELSE LET diff == {i \in 1..Len(a) : a[i] # b[i]}
       IN IF diff = {} THEN 0
          ELSE LET k == CHOOSE i \in diff : \A j \in diff : j <= i
               IN IF a[k] < b[k] THEN -1 ELSE 1

RECURSIVE BMulLimbFrom(_, _, _, _)
BMulLimbFrom(a, d, i, c) ==
  IF i > Len(a) THEN (IF c = 0 THEN <<>> ELSE <<c>>)
  ELSE LET p == a[i] * d + c
       IN <<p % Base>> \o BMulLimbFrom(a, d, i + 1, p \div Base)
BMulLimb(a, d) == BNorm(BMulLimbFrom(a, d, 1, 0))

RECURSIVE BMul(_, _)
BMul(a, b) ==
  IF a = <<>> \/ b = <<>> THEN <<>>
  ELSE LET hi == BMul(a, Tail(b))
       IN BAdd(BMulLimb(a, Head(b)), IF hi = <<>> THEN <<>> ELSE <<0>> \o hi)

BShl(a, n) ==
  IF a = <<>> THEN <<>>
  ELSE [i \in 1..(n \div 15) |-> 0] \o BMulLimb(a, 2^(n % 15))

BShr(a, n) ==
  IF n \div 15 >= Len(a) THEN <<>>
  ELSE LET t == SubSeq(a, (n \div 15) + 1, Len(a))
           r == n % 15
       IN BNorm([i \in 1..Len(t) |-> (t[i] \div 2^r) + (Limb(t, i + 1) % 2^r) * 2^(15 - r)])

BLowBitsNonzero(a, n) ==
  \/ \E i \in 1..Len(a) : i <= n \div 15 /\ a[i] # 0
  \/ Limb(a, (n \div 15) + 1) % 2^(n % 15) # 0

BBit(a, i) == (Limb(a, (i \div 15) + 1) \div 2^(i % 15)) % 2

BBitLen(a) ==
  IF a = <<>> THEN 0
  ELSE 15 * (Len(a) - 1) + (CHOOSE k \in 1..15 : 2^(k - 1) <= a[Len(a)] /\ a[Len(a)] < 2^k)

BIsOdd(a) == a # <<>> /\ a[1] % 2 = 1

(* restoring division, one quotient bit at a time: q2 and r2 are the
   quotient and the remainder so far, doubled *)
DivBitWith(q2, r2, d) ==
  IF BCmp(r2, d) >= 0 THEN <<BAdd(q2, <<1>>), BSub(r2, d)>> ELSE <<q2, r2>>

DivBit(qr, d) == DivBitWith(BShl(qr[1], 1), BShl(qr[2], 1), d)

DivStart(n, d) == IF BCmp(n, d) >= 0 THEN <<<<1>>, BSub(n, d)>> ELSE <<<<>>, n>>

(* 2 * k more bits of quotient; an exact division stops as soon as nothing
   remains *)
RECURSIVE BDivStep(_, _, _)
BDivNext(nx, d, k) ==
  IF nx[2] = <<>> THEN <<BShl(nx[1], 2 * k), <<>>>> ELSE BDivStep(nx, d, k)

BDivStep(qr, d, k) ==
  IF k = 0 THEN qr ELSE BDivNext(DivBit(DivBit(qr, d), d), d, k - 1)

(* ---- IEEE-754 binary64 values: man * 2^exp, 2^52 <= man < 2^53 ---- *)
FZero == [k |-> "num", sgn |-> 0, man |-> <<>>, exp |-> 0]
FNaN  == [k |-> "nan", sgn |-> 0, man |-> <<>>, exp |-> 0]
FInf(s) == [k |-> "inf", sgn |-> s, man |-> <<>>, exp |-> 0]

IsNaN(x) == x.k = "nan"
IsZero(x) == x.k = "num" /\ x.man = <<>>

(* q * 2^e packed, after a carry out of the 53rd bit if rounding made one *)
FRoundPack(s, q1, e) ==
  IF BBitLen(q1) > 53
  THEN [k |-> "num", sgn |-> s, man |-> BShr(q1, 1), exp |-> e + 1]
  ELSE [k |-> "num", sgn |-> s, man |-> q1, exp |-> e]

(* round-half-even: half and rest describe the bits cut off below q *)
FRoundCut(s, q, e, half, rest) ==
  FRoundPack(s, IF half /\ (rest \/ BIsOdd(q)) THEN BAdd(q, <<1>>) ELSE q, e)

FRoundLen(s, m, e, sticky, len) ==
  IF len <= 53
  THEN [k |-> "num", sgn |-> s, man |-> BShl(m, 53 - len), exp |-> e - (53 - len)]
  ELSE FRoundCut(s, BShr(m, len - 53), e + (len - 53), BBit(m, len - 54) = 1,
                 sticky \/ BLowBitsNonzero(m, len - 54))

(* m * 2^e (and a sticky bit below it) rounded to 53 bits, nearest-even *)
FRound(s, m, e, sticky) ==
  IF m = <<>> THEN FZero ELSE FRoundLen(s, m, e, sticky, BBitLen(m))

FromInt(n) == IF n = 0 THEN FZero
              ELSE FRound(IF n < 0 THEN 1 ELSE 0, BFromInt(IF n < 0 THEN -n ELSE n), 0, FALSE)

FNeg(x) == IF x.k = "nan" \/ IsZero(x) THEN x ELSE [x EXCEPT !.sgn = 1 - x.sgn]
FAbs(x) == IF x.k = "nan" THEN x ELSE [x EXCEPT !.sgn = 0]

FMul(x, y) ==
  IF IsNaN(x) \/ IsNaN(y) THEN FNaN
  ELSE IF x.k = "inf" \/ y.k = "inf"
       THEN (IF IsZero(x) \/ IsZero(y) THEN FNaN ELSE FInf((x.sgn + y.sgn) % 2))
  ELSE IF IsZero(x) \/ IsZero(y) THEN FZero
  ELSE FRound((x.sgn + y.sgn) % 2, BMul(x.man, y.man), x.exp + y.exp, FALSE)

FSubMag(xs, ys, a, b, e, c) ==
  IF c = 0 THEN FZero
  ELSE FRound(IF c > 0 THEN xs ELSE ys, IF c > 0 THEN BSub(a, b) ELSE BSub(b, a), e, FALSE)

FAddAligned(xs, ys, a, b, e) ==
  IF xs = ys THEN FRound(xs, BAdd(a, b), e, FALSE) ELSE FSubMag(xs, ys, a, b, e, BCmp(a, b))

FAddExp(x, y, e) ==
  FAddAligned(x.sgn, y.sgn, BShl(x.man, x.exp - e), BShl(y.man, y.exp - e), e)

FAdd(x, y) ==
  IF IsNaN(x) \/ IsNaN(y) THEN FNaN
  ELSE IF x.k = "inf" THEN (IF y.k = "inf" /\ y.sgn # x.sgn THEN FNaN ELSE x)
  ELSE IF y.k = "inf" THEN y
  ELSE IF IsZero(x) THEN y
  ELSE IF IsZero(y) THEN x
  ELSE FAddExp(x, y, IF x.exp < y.exp THEN x.exp ELSE y.exp)

FSub(x, y) == FAdd(x, FNeg(y))

FDivPack(s, qr, e) == FRound(s, qr[1], e, qr[2] # <<>>)

FDiv(x, y) ==
  IF IsNaN(x) \/ IsNaN(y) THEN FNaN
  ELSE IF x.k = "inf" THEN (IF y.k = "inf" THEN FNaN ELSE FInf((x.sgn + y.sgn) % 2))
  ELSE IF y.k = "inf" THEN FZero
  ELSE IF IsZero(y) THEN (IF IsZero(x) THEN FNaN ELSE FInf(x.sgn))
  ELSE IF IsZero(x) THEN FZero
  ELSE FDivPack((x.sgn + y.sgn) % 2, BDivStep(DivStart(x.man, y.man), y.man, 28),
                x.exp - y.exp - 56)

(* -1, 0, 1: the order of two values that are not NaN *)
FMagCmp(x, y) ==
  IF x.k = "inf" THEN (IF y.k = "inf" THEN 0 ELSE 1)
  ELSE IF y.k = "inf" THEN -1
  ELSE IF IsZero(x) THEN (IF IsZero(y) THEN 0 ELSE -1)
  ELSE IF IsZero(y) THEN 1
  ELSE IF x.exp # y.exp THEN (IF x.exp < y.exp THEN -1 ELSE 1)
  ELSE BCmp(x.man, y.man)

FSign(x) == IF IsZero(x) THEN 0 ELSE IF x.sgn = 1 THEN -1 ELSE 1

FCmp(x, y) ==
  IF FSign(x) # FSign(y) THEN (IF FSign(x) < FSign(y) THEN -1 ELSE 1)
  ELSE FSign(x) * FMagCmp(x, y)

FLt(x, y) == ~IsNaN(x) /\ ~IsNaN(y) /\ FCmp(x, y) < 0
FLe(x, y) == ~IsNaN(x) /\ ~IsNaN(y) /\ FCmp(x, y) <= 0
FGt(x, y) == FLt(y, x)
FGe(x, y) == FLe(y, x)
FEq(x, y) == ~IsNaN(x) /\ ~IsNaN(y) /\ FCmp(x, y) = 0
FNe(x, y) == ~FEq(x, y)

Dec(n, d) == FDiv(FromInt(n), FromInt(d))

(***************************************************************************)
(* Signal rule set and composite scorer                                    *)
(***************************************************************************)

(* df[col].shift(1) at row i: the previous row's value, NaN on the first row *)
Shift1(df, i, col) == IF i = 1 THEN FNaN ELSE df[i - 1][col]

(* df[col] = 0; df.loc[buy, col] = 1; df.loc[sell, col] = -1: the later assignment wins *)
Vote(buy, sell) == IF sell THEN -1 ELSE IF buy THEN 1 ELSE 0

(* the rule written with the comparisons negated, which NaN satisfies *)
RsiSignalNegated(df, i) ==
  Vote(~FGe(df[i].rsi, FromInt(30)), ~FLe(df[i].rsi, FromInt(70)))

RsiSignal(df, i) ==
  Vote(FLt(df[i].rsi, FromInt(30)), FGt(df[i].rsi, FromInt(70)))

MacdCrossSignal(df, i) ==
  Vote(FGt(df[i].macd, df[i].macd_signal)
         /\ FLe(Shift1(df, i, "macd"), Shift1(df, i, "macd_signal")),
       FLt(df[i].macd, df[i].macd_signal)
         /\ FGe(Shift1(df, i, "macd"), Shift1(df, i, "macd_signal")))

BbSignal(df, i) ==
  Vote(FLt(df[i].close, df[i].bb_lower), FGt(df[i].close, df[i].bb_upper))

MaCrossSignal(df, i) ==
  Vote(FGt(df[i].sma_20, df[i].sma_50)
         /\ FLe(Shift1(df, i, "sma_20"), Shift1(df, i, "sma_50")),
       FLt(df[i].sma_20, df[i].sma_50)
         /\ FGe(Shift1(df, i, "sma_20"), Shift1(df, i, "sma_50")))

StochSignal(df, i) ==
  Vote(FLt(df[i].stoch_k, FromInt(20)) /\ FLt(df[i].stoch_d, FromInt(20))
         /\ FGt(df[i].stoch_k, df[i].stoch_d),
       FGt(df[i].stoch_k, FromInt(80)) /\ FGt(df[i].stoch_d, FromInt(80))
         /\ FLt(df[i].stoch_k, df[i].stoch_d))

(* a profile that does not sum to one *)
WeightsSkewed ==
  [rsi_signal |-> Dec(2, 10), macd_cross_signal |-> Dec(3, 10), bb_signal |-> Dec(15, 100),
   ma_cross_signal |-> Dec(35, 100), stoch_signal |-> Dec(1, 10)]

(* the full 5-rule weight profile *)
WeightsFull ==
  [rsi_signal |-> Dec(2, 10), macd_cross_signal |-> Dec(3, 10), bb_signal |-> Dec(15, 100),
   ma_cross_signal |-> Dec(25, 100), stoch_signal |-> Dec(1, 10)]

(* the reduced 3-rule weight profile of the batch variant *)
WeightsBatch ==
  [rsi_signal |-> Dec(3, 10), macd_cross_signal |-> Dec(4, 10), bb_signal |-> Dec(3, 10)]

(* an int64 vote column times a float weight *)
Weighted(vote, w) == FMul(FromInt(vote), w)

(* the weighted sum, added left to right as the expression is written *)
RECURSIVE WeightedSum(_, _, _, _)
WeightedSum(cols, v, weights, n) ==
  IF n = 1 THEN Weighted(v[cols[1]], weights[cols[1]])
  ELSE FAdd(WeightedSum(cols, v, weights, n - 1), Weighted(v[cols[n]], weights[cols[n]]))

ColumnsFull == <<"rsi_signal", "macd_cross_signal", "bb_signal", "ma_cross_signal", "stoch_signal">>
ColumnsBatch == <<"rsi_signal", "macd_cross_signal", "bb_signal">>

CompositeFull(v) == WeightedSum(ColumnsFull, v, WeightsFull, Len(ColumnsFull))

CompositeBatch(v) == WeightedSum(ColumnsBatch, v, WeightsBatch, Len(ColumnsBatch))

TrendUp == Dec(3, 10)
TrendDown == Dec(-3, 10)

(* df["trend"] = 0; >= 0.3 -> 1; <= -0.3 -> -1 *)
TrendColumn(c) == IF FLe(c, TrendDown) THEN -1 ELSE IF FGe(c, TrendUp) THEN 1 ELSE 0

(* Series.clip(lo, hi) *)
Clip(x, lo, hi) == IF FLt(x, lo) THEN lo ELSE IF FGt(x, hi) THEN hi ELSE x

(* a confidence that keeps the sign of the score *)
ConfidenceSigned(c) == FMul(c, FromInt(100))

(* abs(df["composite_signal"]) * 100, then .clip(0, 100) *)
ConfidenceColumn(c) == Clip(FMul(FAbs(c), FromInt(100)), FZero, FromInt(100))

(* a labelling that calls a zero score a BUY *)
SignalLabelLoose(c) == IF FGe(c, FZero) THEN "BUY" ELSE "SELL"

(* "BUY" if c > 0 else "SELL" if c < 0 else "HOLD" *)
SignalLabel(c) == IF FGt(c, FZero) THEN "BUY" ELSE IF FLt(c, FZero) THEN "SELL" ELSE "HOLD"

(* "UPTREND" if trend == 1 else "DOWNTREND" if trend == -1 else "NEUTRAL" *)
TrendLabel(t) == IF t = 1 THEN "UPTREND" ELSE IF t = -1 THEN "DOWNTREND" ELSE "NEUTRAL"

(* "UPTREND" if latest["sma_20"] > latest["sma_50"] else "DOWNTREND" *)
TrendLabelBatch(row) == IF FGt(row.sma_20, row.sma_50) THEN "UPTREND" ELSE "DOWNTREND"

VotesFull(df, i) ==
  [rsi_signal |-> RsiSignal(df, i), macd_cross_signal |-> MacdCrossSignal(df, i),
   bb_signal |-> BbSignal(df, i), ma_cross_signal |-> MaCrossSignal(df, i),
   stoch_signal |-> StochSignal(df, i)]

VotesBatch(df, i) ==
  [rsi_signal |-> RsiSignal(df, i), macd_cross_signal |-> MacdCrossSignal(df, i),
   bb_signal |-> BbSignal(df, i)]

(* the columns derived from the composite c of a row *)
DerivedColumns(row, v, c) ==
  [close |-> row.close, rsi |-> row.rsi, sma_20 |-> row.sma_20,
   sma_50 |-> row.sma_50, votes |-> v, composite_signal |-> c,
   signal_strength |-> c, trend |-> TrendColumn(c), confidence |-> ConfidenceColumn(c)]

ScoredRowFull(row, v) == DerivedColumns(row, v, CompositeFull(v))

(* one row of the frame generate_trading_signals returns *)
SignalRowFull(df, i) == ScoredRowFull(df[i], VotesFull(df, i))

(* generate_trading_signals(df): None (<<>> here) for an empty frame *)
GenerateTradingSignals(df) == [i \in 1..Len(df) |-> SignalRowFull(df, i)]

(* the signal summary create_trading_strategies and generate_signals build
   from the latest row *)
SignalSummaryFull(coin, latest) ==
  [coin |-> coin, price |-> latest.close, signal |-> SignalLabel(latest.composite_signal),
   signal_strength |-> latest.composite_signal, confidence |-> latest.confidence,
   rsi |-> latest.rsi, trend |-> TrendLabel(latest.trend)]

ScoredRowBatch(row, v) ==
  [close |-> row.close, rsi |-> row.rsi, sma_20 |-> row.sma_20,
   sma_50 |-> row.sma_50, votes |-> v, composite_signal |-> CompositeBatch(v)]

SignalRowBatch(df, i) == ScoredRowBatch(df[i], VotesBatch(df, i))

SignalSummaryBatch(coin, latest) ==
  [coin |-> coin, price |-> latest.close, signal |-> SignalLabel(latest.composite_signal),
   confidence |-> FMul(FAbs(latest.composite_signal), FromInt(100)),
   rsi |-> latest.rsi, trend |-> TrendLabelBatch(latest)]

(* generate_trading_signals_batch((df, coin)): (df, coin, signal_summary) *)
BatchResult(rows, coin) ==
  [rows |-> rows, summary |-> <<SignalSummaryBatch(coin, rows[Len(rows)])>>]

GenerateTradingSignalsBatch(df, coin) ==
  BatchResult([i \in 1..Len(df) |-> SignalRowBatch(df, i)], coin)

(***************************************************************************)
(* Frames on disk                                                          *)
(***************************************************************************)

FloatCols ==
  {"close", "rsi", "sma_20", "sma_50", "composite_signal", "signal_strength", "confidence",
   "entry_point", "exit_point", "stop_loss", "risk_reward_ratio"}

(* to_csv writes a float as its shortest round-trip decimal and NaN as an
   empty cell; read_csv reads an empty cell as NaN *)
ToCsvCell(x) == IF IsNaN(x) THEN [empty |-> TRUE, num |-> FZero] ELSE [empty |-> FALSE, num |-> x]
ReadCsvCell(c) == IF c.empty THEN FNaN ELSE c.num

ToCsv(df) ==
  [i \in 1..Len(df) |->
     [f \in DOMAIN df[i] |-> IF f \in FloatCols THEN ToCsvCell(df[i][f]) ELSE df[i][f]]]

ReadCsv(text) ==
  [i \in 1..Len(text) |->
     [f \in DOMAIN text[i] |-> IF f \in FloatCols THEN ReadCsvCell(text[i][f]) ELSE text[i][f]]]

(* df.iloc[-1] *)
Latest(df) == df[Len(df)]

(***************************************************************************)
(* Ranking of summaries                                                    *)
(***************************************************************************)

(* an order that puts SELL before HOLD *)
SignalOrderSellFirst(s) == IF s = "BUY" THEN 1 ELSE IF s = "SELL" THEN 2 ELSE 3

(* Python's str order on the three labels: "BUY" < "HOLD" < "SELL" *)
SignalOrder(s) == IF s = "BUY" THEN 1 ELSE IF s = "HOLD" THEN 2 ELSE 3

(* row a sorts strictly before row b under by=["signal","confidence"],
   ascending=[True, False] *)
SortsBefore(a, b) ==
  \/ SignalOrder(a.signal) < SignalOrder(b.signal)
  \/ SignalOrder(a.signal) = SignalOrder(b.signal) /\ FGt(a.confidence, b.confidence)

RECURSIVE InsertSorted(_, _)
InsertSorted(s, r) ==
  IF s = <<>> THEN <<r>>
  ELSE IF SortsBefore(r, s[Len(s)]) THEN Append(InsertSorted(SubSeq(s, 1, Len(s) - 1), r), s[Len(s)])
  ELSE Append(s, r)

(* DataFrame.sort_values: a stable sort, ties keep their arrival order *)
RECURSIVE SortValues(_)
SortValues(s) ==
  IF s = <<>> THEN <<>> ELSE InsertSorted(SortValues(SubSeq(s, 1, Len(s) - 1)), s[Len(s)])

(***************************************************************************)
(* The scoring stage of the three pipeline variants                        *)
(***************************************************************************)

(* the coin list, abridged to two coins *)
COINS == <<"BTC", "ETH">>

CoinSet == {COINS[i] : i \in 1..Len(COINS)}

NoFile == [present |-> FALSE, df |-> <<>>]
File(df) == [present |-> TRUE, df |-> df]

(* all orders in which the futures of a coin set can complete *)
Orders(S) == {o \in [1..Cardinality(S) -> S] : \A c \in S : \E i \in DOMAIN o : o[i] = c}

(* the frames and summaries of a scoring stage are written: the strategy
   files, then the ranked summary *)
SaveStrategies(scored, todo, next) ==
  /\ strategies' =
       [c \in CoinSet |-> IF scored[c].held THEN File(ToCsv(scored[c].df)) ELSE strategies[c]]
  /\ signals_df' = SortValues([i \in 1..Len(todo) |->
                      SignalSummaryFull(todo[i], Latest(scored[todo[i]].df))])
  /\ pc' = next

(* create_trading_strategies: score every coin that has a non-empty analysis
   file, append its summary, rank the summaries; sort_values on a summary
   frame without columns raises KeyError *)
CreateTradingStrategies ==
  /\ pc = "analysed"
  /\ LET done(c) == analysis[c].present /\ analysis[c].df # <<>>
     IN SaveStrategies([c \in CoinSet |->
                          [held |-> done(c), df |-> GenerateTradingSignals(analysis[c].df)]],
                       SelectSeq(COINS, done),
                       IF \E c \in CoinSet : done(c) THEN "scored_full" ELSE "KeyError")
  /\ UNCHANGED <<analysis, entry_exit, points_df, rr, strategyB, account, outbox, staging>>

(* lambda generate_signals: the same rules inline, per coin inside try/except;
   df.iloc[-1] on an empty frame raises IndexError, which is caught after the
   strategy file was written *)
GenerateSignals ==
  /\ pc = "analysed"
  /\ LET held(c) == analysis[c].present
         done(c) == held(c) /\ analysis[c].df # <<>>
     IN SaveStrategies([c \in CoinSet |->
                          [held |-> held(c), df |-> GenerateTradingSignals(analysis[c].df)]],
                       SelectSeq(COINS, done), "scored_lambda")
  /\ UNCHANGED <<analysis, entry_exit, points_df, rr, strategyB, account, outbox, staging>>

(* the batch stage writes its frames and ranks the summaries in the order
   the futures completed *)
SaveBatch(results, done) ==
  /\ strategies' = [c \in CoinSet |-> IF c \in done THEN File(ToCsv(results[c].rows)) ELSE NoFile]
  /\ \E o \in Orders(done) :
       signals_df' = SortValues([i \in DOMAIN o |-> results[o[i]].summary[1]])
  /\ pc' = "scored_batch"

(* stage 3 of batch_process_cryptocurrencies: one future per analysed coin,
   results collected in completion order, then ranked *)
BatchSignals ==
  /\ pc = "analysed"
  /\ LET done == {c \in CoinSet : analysis[c].present /\ analysis[c].df # <<>>}
     IN SaveBatch([c \in done |-> GenerateTradingSignalsBatch(analysis[c].df, c)], done)
  /\ UNCHANGED <<analysis, entry_exit, points_df, rr, strategyB, account, outbox, staging>>

(***************************************************************************)
(* Strategy A: percentage-based entry, stop and exit                       *)
(***************************************************************************)

BuyEntryFactor == Dec(99, 100)
BuyStopFactor == Dec(98, 100)
SellEntryFactor == Dec(101, 100)
SellStopFactor == Dec(102, 100)

(* the default risk_reward_ratio=5.0, hard-coded 5.0 in the lambda *)
DefaultRiskReward == FromInt(5)

NaNPoints == [entry_point |-> FNaN, stop_loss |-> FNaN, exit_point |-> FNaN]

(* exit_point = entry_point + reward, reward = risk * risk_reward_ratio,
   risk = entry_point - stop_loss *)
BuyExit(entry_point, stop_loss, risk_reward_ratio) ==
  [entry_point |-> entry_point, stop_loss |-> stop_loss,
   exit_point |-> FAdd(entry_point, FMul(FSub(entry_point, stop_loss), risk_reward_ratio))]

(* exit_point = entry_point - reward, reward = risk * risk_reward_ratio,
   risk = stop_loss - entry_point *)
SellExit(entry_point, stop_loss, risk_reward_ratio) ==
  [entry_point |-> entry_point, stop_loss |-> stop_loss,
   exit_point |-> FSub(entry_point, FMul(FSub(stop_loss, entry_point), risk_reward_ratio))]

(* stop_loss = entry_point * 0.98 *)
BuyStop(entry_point, risk_reward_ratio) ==
  BuyExit(entry_point, FMul(entry_point, BuyStopFactor), risk_reward_ratio)

(* stop_loss = entry_point * 1.02 *)
SellStop(entry_point, risk_reward_ratio) ==
  SellExit(entry_point, FMul(entry_point, SellStopFactor), risk_reward_ratio)

(* a computation that writes zeros, not NaN, on HOLD *)
EntryExitStopZeroOnHold(price, score, risk_reward_ratio) ==
  IF FGt(score, FZero) THEN BuyStop(FMul(price, BuyEntryFactor), risk_reward_ratio)
  ELSE IF FLt(score, FZero) THEN SellStop(FMul(price, SellEntryFactor), risk_reward_ratio)
  ELSE [entry_point |-> FZero, stop_loss |-> FZero, exit_point |-> FZero]

(* a computation that puts the SELL stop and exit on the BUY sides *)
EntryExitStopSameSide(price, score, risk_reward_ratio) ==
  IF FGt(score, FZero) THEN BuyStop(FMul(price, BuyEntryFactor), risk_reward_ratio)
  ELSE IF FLt(score, FZero) THEN BuyStop(FMul(price, SellEntryFactor), risk_reward_ratio)
  ELSE NaNPoints

(* a computation whose reward ignores the ratio *)
EntryExitStopUnitReward(price, score, risk_reward_ratio) ==
  IF FGt(score, FZero) THEN BuyStop(FMul(price, BuyEntryFactor), FromInt(1))
  ELSE IF FLt(score, FZero) THEN SellStop(FMul(price, SellEntryFactor), FromInt(1))
  ELSE NaNPoints

(* the entry/stop/exit computation both variants share:
   entry_point = price * 0.99 on a positive score, price * 1.01 on a negative *)
EntryExitStop(price, score, risk_reward_ratio) ==
  IF FGt(score, FZero) THEN BuyStop(FMul(price, BuyEntryFactor), risk_reward_ratio)
  ELSE IF FLt(score, FZero) THEN SellStop(FMul(price, SellEntryFactor), risk_reward_ratio)
  ELSE NaNPoints

NoPoints ==
  [entry_point |-> FNaN, exit_point |-> FNaN, stop_loss |-> FNaN, risk_reward_ratio |-> FNaN]

(* the four columns of a row, under the row's other columns *)
WithPoints(row, pts) ==
  [f \in DOMAIN row \cup DOMAIN pts |-> IF f \in DOMAIN pts THEN pts[f] ELSE row[f]]

(* the four columns of the last row: the ratio is NaN when signal == 0 *)
LastPoints(e, score, risk_reward_ratio) ==
  [entry_point |-> e.entry_point, exit_point |-> e.exit_point, stop_loss |-> e.stop_loss,
   risk_reward_ratio |-> IF FNe(score, FZero) THEN risk_reward_ratio ELSE FNaN]

(* the four columns are NaN on every row but the last *)
SetLast(df, last) ==
  [i \in 1..Len(df) |-> WithPoints(df[i], IF i = Len(df) THEN last ELSE NoPoints)]

PointsOfLatest(latest, risk_reward_ratio) ==
  LastPoints(EntryExitStop(latest.close, latest.composite_signal, risk_reward_ratio),
             latest.composite_signal, risk_reward_ratio)

(* generate_entry_exit_points(df, risk_reward_ratio): None (<<>> here) for an
   empty frame *)
GenerateEntryExitPoints(df, risk_reward_ratio) ==
  IF df = <<>> THEN <<>> ELSE SetLast(df, PointsOfLatest(Latest(df), risk_reward_ratio))

EntryExitSummary(coin, latest) ==
  [coin |-> coin, price |-> latest.close, signal |-> SignalLabel(latest.composite_signal),
   confidence |-> latest.confidence, entry_point |-> latest.entry_point,
   exit_point |-> latest.exit_point, stop_loss |-> latest.stop_loss,
   risk_reward_ratio |-> latest.risk_reward_ratio]

(* the point files are written, then the ranked summary of the coins whose
   latest entry_point is not NaN *)
SavePoints(pts, todo) ==
  /\ entry_exit' =
       [c \in CoinSet |-> IF pts[c] # <<>> THEN File(ToCsv(pts[c])) ELSE entry_exit[c]]
  /\ points_df' = SortValues([i \in 1..Len(todo) |-> EntryExitSummary(todo[i], Latest(pts[todo[i]]))])
  /\ pc' = "points_full"

ShownIn(pts, c) == pts[c] # <<>> /\ ~IsNaN(Latest(pts[c]).entry_point)

ShownCoins(pts) == SelectSeq(COINS, LAMBDA c : ShownIn(pts, c))

SummarisePoints(pts) == SavePoints(pts, ShownCoins(pts))

(* generate_all_entry_exit_points: per coin with a strategy file, read it,
   compute the points, write them, summarise unless entry_point is NaN; rank *)
GenerateAllEntryExitPoints ==
  /\ pc = "scored_full"
  /\ SummarisePoints([c \in CoinSet |->
       IF strategies[c].present
       THEN GenerateEntryExitPoints(ReadCsv(strategies[c].df), DefaultRiskReward) ELSE <<>>])
  /\ UNCHANGED <<analysis, strategies, signals_df, rr, strategyB, account, outbox, staging>>

LambdaPoints(row, e) ==
  [coin |-> row.coin, price |-> row.price, signal |-> row.signal,
   confidence |-> row.confidence, entry_point |-> e.entry_point,
   exit_point |-> e.exit_point, stop_loss |-> e.stop_loss,
   risk_reward_ratio |-> DefaultRiskReward]

LambdaSummary(row) ==
  LambdaPoints(row, EntryExitStop(row.price, row.signal_strength, DefaultRiskReward))

(* if row["signal_strength"] > 0 ... elif row["signal_strength"] < 0 ... else continue *)
Traded(row) == FGt(row.signal_strength, FZero) \/ FLt(row.signal_strength, FZero)

LambdaSummaries(rows) == [i \in 1..Len(rows) |-> LambdaSummary(rows[i])]

(* lambda generate_entry_exit_points(temp_dir, signals_df): one summary per
   ranked signal row whose signal_strength is > 0 or < 0; rank *)
LambdaEntryExitPoints ==
  /\ pc = "scored_lambda"
  /\ points_df' = SortValues(LambdaSummaries(SelectSeq(signals_df, Traded)))
  /\ pc' = "points_lambda"
  /\ UNCHANGED <<analysis, strategies, signals_df, entry_exit, rr, strategyB, account, outbox, staging>>

(***************************************************************************)
(* Analysis frames the pipeline is run on                                  *)
(***************************************************************************)

IndicatorRow(rsi, macd, bb, sma_20, stoch) ==
  [close |-> FromInt(10), rsi |-> rsi, macd |-> macd, macd_signal |-> FZero,
   bb_lower |-> bb[1], bb_upper |-> bb[2], sma_20 |-> sma_20, sma_50 |-> FromInt(10),
   stoch_k |-> stoch[1], stoch_d |-> stoch[2]]

(* a bar on which every indicator sits between its thresholds and on its
   signal line *)
FlatRow ==
  IndicatorRow(FromInt(50), FZero, <<FromInt(5), FromInt(15)>>, FromInt(10),
               <<FromInt(50), FromInt(50)>>)

(* a bar too early in the series for any indicator window *)
WarmupRow ==
  [close |-> FromInt(10), rsi |-> FNaN, macd |-> FNaN, macd_signal |-> FNaN,
   bb_lower |-> FNaN, bb_upper |-> FNaN, sma_20 |-> FNaN, sma_50 |-> FNaN,
   stoch_k |-> FNaN, stoch_d |-> FNaN]

LatestRows ==
  {IndicatorRow(FromInt(rsi), FromInt(macd), <<FromInt(bb[1]), FromInt(bb[2])>>,
                FromInt(sma), <<FromInt(st[1]), FromInt(st[2])>>) :
     rsi \in {20, 50, 80}, macd \in {-1, 0, 1}, bb \in {<<5, 15>>, <<11, 15>>, <<5, 9>>},
     sma \in {9, 10, 11}, st \in {<<15, 10>>, <<50, 50>>, <<85, 90>>}}

(* one-bar frames, where shift(1) has nothing to read *)
FirstBarRows ==
  {r \in LatestRows :
     /\ r.rsi = FromInt(50)
     /\ r.stoch_k = FromInt(50) \/ (r.macd = FZero /\ r.sma_20 = FromInt(10))}

(* a bar in the oversold zone with %K above %D *)
OversoldRow ==
  IndicatorRow(FromInt(50), FZero, <<FromInt(5), FromInt(15)>>, FromInt(10),
               <<FromInt(15), FromInt(10)>>)

(* a bar on which the short windows are full and the long ones are not: rsi
   is oversold, the bands are there, the signal lines are not yet *)
PartialRow ==
  [WarmupRow EXCEPT !.rsi = FromInt(20), !.macd = FromInt(1), !.bb_lower = FromInt(5),
                    !.bb_upper = FromInt(15), !.sma_20 = FromInt(11), !.stoch_k = FromInt(15)]

(* frames whose first bar is still in the warm-up of every indicator *)
WarmupFrames ==
  {<<WarmupRow>>, <<WarmupRow, WarmupRow>>, <<WarmupRow, PartialRow>>}
  \cup {<<WarmupRow, r>> : r \in FirstBarRows}

MainFrames ==
  {<<>>, <<OversoldRow, OversoldRow>>} \cup WarmupFrames
  \cup {<<r>> : r \in FirstBarRows} \cup {<<FlatRow, r>> : r \in LatestRows}

SideFrames ==
  {<<FlatRow, FlatRow>>,
   <<FlatRow, IndicatorRow(FromInt(20), FromInt(1), <<FromInt(5), FromInt(15)>>, FromInt(10),
                           <<FromInt(50), FromInt(50)>>)>>,
   <<FlatRow, IndicatorRow(FromInt(80), FZero, <<FromInt(5), FromInt(15)>>, FromInt(9),
                           <<FromInt(50), FromInt(50)>>)>>}

NoFiles == [c \in CoinSet |-> NoFile]

(* Strategy B has not been run *)
INITIAL_BALANCE == 15000
PHASE_THRESHOLDS == <<25000, 40000, 50000>>
PHASE_LOT_FACTOR == <<FromInt(1), FromInt(1), FromInt(1)>>

(* get_phase has not been called; the table is the shipped one *)
IdleAccount == lot_factor = PHASE_LOT_FACTOR /\ phase = <<>> /\ balance = INITIAL_BALANCE

Stages == {"fetch", "indicators", "signals"}

NoData == [present |-> FALSE, columns |-> {}, df |-> <<>>]

(* no task has been submitted and no run started *)
IdleStaging ==
  /\ data = [c \in CoinSet |-> NoData]
  /\ data_results = {} /\ analysis_results = {} /\ signal_results = {}
  /\ futures = [s \in Stages |-> [c \in CoinSet |-> "none"]]
  /\ completed = <<>>
  /\ signal_summaries = <<>>
  /\ runs = 0
  /\ summary_data = <<>> /\ notify = "idle" /\ response = 0

IdleB ==
  /\ bars = <<>> /\ frame = <<>> /\ signal = <<>> /\ trade = <<>>
  /\ IdleAccount /\ IdleStaging

InitPipeline ==
  /\ pc = "analysed"
  /\ \E m \in {File(df) : df \in MainFrames}, s \in {NoFile} \cup {File(df) : df \in SideFrames} :
       analysis = [c \in CoinSet |-> IF c = COINS[1] THEN m ELSE s]
  /\ strategies = NoFiles
  /\ signals_df = <<>>
  /\ entry_exit = NoFiles
  /\ points_df = <<>>
  /\ rr = DefaultRiskReward
  /\ IdleB

NextPipeline ==
  \/ CreateTradingStrategies
  \/ GenerateSignals
  \/ BatchSignals
  \/ GenerateAllEntryExitPoints
  \/ LambdaEntryExitPoints

SpecPipeline == InitPipeline /\ [][NextPipeline]_vars

(***************************************************************************)
(* Properties of the scoring stage                                         *)
(***************************************************************************)

One == FromInt(1)
Hundred == FromInt(100)

Scored == pc \in {"scored_full", "scored_lambda", "scored_batch"}

(* the strategy frame of a coin as read back, <<>> without a file *)
StrategyFrame(c) == ReadCsv(strategies[c].df)

(* the latest composite_signal behind a summary row *)
LatestComposite(row) == Latest(StrategyFrame(row.coin)).composite_signal

(* the weights of a profile added up, left to right *)
RECURSIVE WeightSum(_, _, _)
WeightSum(cols, weights, n) ==
  IF n = 1 THEN weights[cols[1]] ELSE FAdd(WeightSum(cols, weights, n - 1), weights[cols[n]])

WeightSumFull == WeightSum(ColumnsFull, WeightsFull, Len(ColumnsFull))

WeightSumBatch == WeightSum(ColumnsBatch, WeightsBatch, Len(ColumnsBatch))

(* C1: both weight profiles sum to exactly 1.0, and every composite_signal
   any of the three scoring variants writes lies in [-1, 1] *)
C1_CompositeInUnitRange ==
  /\ FEq(WeightSumFull, One)
  /\ FEq(WeightSumBatch, One)
  /\ \A c \in CoinSet : \A i \in 1..Len(strategies[c].df) :
       /\ FGe(StrategyFrame(c)[i].composite_signal, FNeg(One))
       /\ FLe(StrategyFrame(c)[i].composite_signal, One)

(* all five rules vote BUY and the score is 1.0; all three batch rules vote
   SELL and the score is -1.0 *)
C1_Witness ==
  \/ /\ pc = "scored_full"
     /\ \E i \in 1..Len(signals_df) :
          /\ Latest(StrategyFrame(signals_df[i].coin)).votes =
               [rsi_signal |-> 1, macd_cross_signal |-> 1, bb_signal |-> 1,
                ma_cross_signal |-> 1, stoch_signal |-> 1]
          /\ FEq(signals_df[i].signal_strength, One)
  \/ /\ pc = "scored_batch"
     /\ \E i \in 1..Len(signals_df) :
          /\ Latest(StrategyFrame(signals_df[i].coin)).votes =
               [rsi_signal |-> -1, macd_cross_signal |-> -1, bb_signal |-> -1]
          /\ FEq(LatestComposite(signals_df[i]), FNeg(One))

(* C2: in all three variants the reported label is BUY iff the latest
   composite_signal > 0, SELL iff < 0, HOLD iff == 0, and one label applies *)
C2_LabelMatchesSign ==
  Scored =>
    \A i \in 1..Len(signals_df) :
      LET c == LatestComposite(signals_df[i])
          s == signals_df[i].signal
      IN /\ s \in {"BUY", "SELL", "HOLD"}
         /\ (s = "BUY") <=> FGt(c, FZero)
         /\ (s = "SELL") <=> FLt(c, FZero)
         /\ (s = "HOLD") <=> FEq(c, FZero)

(* a ranked summary holds a HOLD row whose score is 0 next to a SELL row
   whose score is below 0 *)
C2_Witness ==
  /\ Scored
  /\ \E i, j \in 1..Len(signals_df) :
       /\ signals_df[i].signal = "HOLD" /\ FEq(LatestComposite(signals_df[i]), FZero)
       /\ signals_df[j].signal = "SELL" /\ FLt(LatestComposite(signals_df[j]), FZero)

(* C3 as stated: in every variant, batch included, the trend label is
   UPTREND iff the latest composite_signal >= 0.3, DOWNTREND iff <= -0.3,
   NEUTRAL otherwise *)
C3_TrendFromComposite ==
  Scored =>
    \A i \in 1..Len(signals_df) :
      LET c == LatestComposite(signals_df[i])
          t == signals_df[i].trend
      IN /\ (t = "UPTREND") <=> FGe(c, TrendUp)
         /\ (t = "DOWNTREND") <=> FLe(c, TrendDown)
         /\ (t = "NEUTRAL") <=> (~FGe(c, TrendUp) /\ ~FLe(c, TrendDown))

(* C4: in every variant confidence equals clamp(|composite_signal| * 100, 0,
   100) and lies in [0, 100], with the clip (full, lambda) and without it
   (batch) *)
C4_ConfidenceClamped ==
  Scored =>
    \A i \in 1..Len(signals_df) :
      LET c == LatestComposite(signals_df[i])
          conf == signals_df[i].confidence
      IN /\ FEq(conf, Clip(FMul(FAbs(c), Hundred), FZero, Hundred))
         /\ FGe(conf, FZero)
         /\ FLe(conf, Hundred)

(* the batch variant reports the confidence 100 of a score of -1.0, the full
   variant a confidence strictly inside the range *)
C4_Witness ==
  \/ /\ pc = "scored_batch"
     /\ \E i \in 1..Len(signals_df) :
          FEq(signals_df[i].confidence, Hundred) /\ FEq(LatestComposite(signals_df[i]), FNeg(One))
  \/ /\ pc = "scored_full"
     /\ \E i \in 1..Len(signals_df) :
          FGt(signals_df[i].confidence, FZero) /\ FLt(signals_df[i].confidence, Hundred)

(* C13 as stated: the MACD cross, the MA cross and the Stochastic rule never
   vote on the first bar of a series, whatever the indicator values on it *)
C13_NoCrossOnFirstBar ==
  Scored =>
    \A c \in CoinSet : strategies[c].df # <<>> =>
      LET votes == strategies[c].df[1].votes
      IN /\ votes.macd_cross_signal = 0
         /\ "ma_cross_signal" \in DOMAIN votes => votes.ma_cross_signal = 0
         /\ "stoch_signal" \in DOMAIN votes => votes.stoch_signal = 0

(* %K went from at or below %D on the bar before to above it on bar i, or
   the other way round *)
StochCrossedAbove(df, i) ==
  FGt(df[i].stoch_k, df[i].stoch_d) /\ FLe(df[i - 1].stoch_k, df[i - 1].stoch_d)

StochCrossedBelow(df, i) ==
  FLt(df[i].stoch_k, df[i].stoch_d) /\ FGe(df[i - 1].stoch_k, df[i - 1].stoch_d)

(* C26 as stated: the Stochastic vote of a bar is +1 only if %K and %D are
   both < 20 and %K crossed above %D on that bar, -1 only if both are > 80
   and %K crossed below %D on that bar; a bar on which the order of %K and
   %D is the one of the bar before gets 0 *)
C26_StochasticCross ==
  Scored =>
    \A c \in CoinSet : \A i \in 2..Len(strategies[c].df) :
      LET votes == strategies[c].df[i].votes
          df == analysis[c].df
      IN "stoch_signal" \in DOMAIN votes =>
           /\ votes.stoch_signal = 1 =>
                /\ FLt(df[i].stoch_k, FromInt(20)) /\ FLt(df[i].stoch_d, FromInt(20))
                /\ StochCrossedAbove(df, i)
           /\ votes.stoch_signal = -1 =>
                /\ FGt(df[i].stoch_k, FromInt(80)) /\ FGt(df[i].stoch_d, FromInt(80))
                /\ StochCrossedBelow(df, i)

(* one of the columns cols is NaN on bar i of df *)
Missing(df, i, cols) == \E col \in cols : IsNaN(df[i][col])

(* the same on bar i or on the bar before, which the first bar does not have *)
MissingCross(df, i, cols) == i = 1 \/ Missing(df, i, cols) \/ Missing(df, i - 1, cols)

IndicatorCols ==
  {"rsi", "macd", "macd_signal", "bb_lower", "bb_upper", "sma_20", "sma_50", "stoch_k",
   "stoch_d"}

(* C27: on a bar where an indicator a rule reads, or for a crossover rule
   the indicator on the bar before, is NaN, the vote of that rule is 0;
   every vote is -1, 0 or +1; a bar with no indicator at all has composite 0
   and reads HOLD *)
C27_InsufficientHistoryNeutral ==
  Scored =>
    \A c \in CoinSet : \A i \in 1..Len(strategies[c].df) :
      LET votes == strategies[c].df[i].votes
          df == analysis[c].df
          composite == ReadCsvCell(strategies[c].df[i].composite_signal)
      IN /\ \A rule \in DOMAIN votes : votes[rule] \in {-1, 0, 1}
         /\ Missing(df, i, {"rsi"}) => votes.rsi_signal = 0
         /\ MissingCross(df, i, {"macd", "macd_signal"}) => votes.macd_cross_signal = 0
         /\ Missing(df, i, {"bb_lower", "bb_upper"}) => votes.bb_signal = 0
         /\ "ma_cross_signal" \in DOMAIN votes =>
              (MissingCross(df, i, {"sma_20", "sma_50"}) => votes.ma_cross_signal = 0)
         /\ "stoch_signal" \in DOMAIN votes =>
              (Missing(df, i, {"stoch_k", "stoch_d"}) => votes.stoch_signal = 0)
         /\ (\A col \in IndicatorCols : IsNaN(df[i][col])) =>
              IsZero(composite) /\ SignalLabel(composite) = "HOLD"

(* a scored frame whose first bar has no indicator and whose second bar has
   macd above its signal line and sma_20 above sma_50, yet no cross vote *)
C27_Witness ==
  /\ Scored
  /\ \E c \in CoinSet :
       /\ Len(strategies[c].df) = 2
       /\ \A col \in IndicatorCols : IsNaN(analysis[c].df[1][col])
       /\ FGt(analysis[c].df[2].macd, analysis[c].df[2].macd_signal)
       /\ FGt(analysis[c].df[2].sma_20, analysis[c].df[2].sma_50)
       /\ strategies[c].df[2].votes.macd_cross_signal = 0
       /\ IsZero(ReadCsvCell(strategies[c].df[1].composite_signal))

(* rows of one signal are ranked by confidence, highest first *)
ConfidenceDescending ==
  \A i, j \in 1..Len(signals_df) :
    (i < j /\ signals_df[i].signal = signals_df[j].signal) =>
      FGe(signals_df[i].confidence, signals_df[j].confidence)

(* C17 as stated: in the ranked summary of each variant all BUY rows come
   before all SELL rows and all SELL rows before all HOLD rows, and rows of
   one signal are ordered by confidence descending *)
C17_BuySellHold ==
  Scored =>
    /\ \A i, j \in 1..Len(signals_df) : i < j =>
         /\ ~(signals_df[i].signal = "SELL" /\ signals_df[j].signal = "BUY")
         /\ ~(signals_df[i].signal = "HOLD" /\ signals_df[j].signal \in {"BUY", "SELL"})
    /\ ConfidenceDescending

(* C17 amended: in the ranked summary of each variant all BUY rows come
   before all HOLD rows and all HOLD rows before all SELL rows (the labels
   in ascending string order), and rows of one signal are ordered by
   confidence descending *)
C17_BuyHoldSell ==
  Scored =>
    /\ \A i, j \in 1..Len(signals_df) : i < j =>
         /\ ~(signals_df[i].signal = "HOLD" /\ signals_df[j].signal = "BUY")
         /\ ~(signals_df[i].signal = "SELL" /\ signals_df[j].signal \in {"BUY", "HOLD"})
    /\ ConfidenceDescending

(* the second coin of the list, on HOLD, is ranked before the first, on SELL *)
C17_Witness ==
  /\ Scored
  /\ Len(signals_df) = 2
  /\ signals_df[1].coin = COINS[2] /\ signals_df[1].signal = "HOLD"
  /\ signals_df[2].coin = COINS[1] /\ signals_df[2].signal = "SELL"

(***************************************************************************)
(* Properties of the entry/exit stage of the pipeline                      *)
(***************************************************************************)

PointsCoins == {points_df[i].coin : i \in 1..Len(points_df)}

PointColumns == {"entry_point", "exit_point", "stop_loss", "risk_reward_ratio"}

(* C7: on HOLD (latest composite_signal == 0) the four point columns hold no
   value and the coin is not in the ranked entry/exit summary; every coin
   with a non-zero latest composite_signal is in it *)
C7_HoldHasNoPoints ==
  /\ pc = "points_full" =>
       \A c \in CoinSet : strategies[c].present =>
         LET score == Latest(StrategyFrame(c)).composite_signal
             cells == Latest(entry_exit[c].df)
         IN IF FEq(score, FZero)
            THEN (\A f \in PointColumns : cells[f].empty) /\ c \notin PointsCoins
            ELSE (\A f \in PointColumns : ~cells[f].empty) /\ c \in PointsCoins
  /\ pc = "points_lambda" =>
       \A i \in 1..Len(signals_df) :
         signals_df[i].coin \in PointsCoins <=> FNe(signals_df[i].signal_strength, FZero)

(* one coin on HOLD is left out of the summary while the other, with a
   non-zero score, is in it *)
C7_Witness ==
  /\ pc \in {"points_full", "points_lambda"}
  /\ Len(signals_df) = 2
  /\ Len(points_df) = 1
  /\ \E i \in 1..2 : signals_df[i].signal = "HOLD" /\ signals_df[i].coin \notin PointsCoins

(***************************************************************************)
(* Strategy A over a range of prices and ratios                            *)
(***************************************************************************)

MaxPrice == 100
MaxR == 5

(* a one-bar analysis frame priced p whose only vote is the RSI rule's *)
PricedFrame(p, rsi) ==
  <<[close |-> FromInt(p), rsi |-> FromInt(rsi), macd |-> FNaN, macd_signal |-> FNaN,
     bb_lower |-> FNaN, bb_upper |-> FNaN, sma_20 |-> FNaN, sma_50 |-> FNaN,
     stoch_k |-> FNaN, stoch_d |-> FNaN]>>

(* the state the scoring stage leaves for one coin with the given frame *)
ScoredWith(stage, df, scored, ratio) ==
  /\ pc = stage
  /\ analysis = [c \in CoinSet |-> IF c = COINS[1] THEN File(df) ELSE NoFile]
  /\ strategies = [c \in CoinSet |-> IF c = COINS[1] THEN File(ToCsv(scored)) ELSE NoFile]
  /\ signals_df =
       IF df = <<>> THEN <<>> ELSE <<SignalSummaryFull(COINS[1], Latest(scored))>>
  /\ entry_exit = NoFiles
  /\ points_df = <<>>
  /\ rr = ratio
  /\ IdleB

ScoredAs(stage, df, ratio) == ScoredWith(stage, df, GenerateTradingSignals(df), ratio)

InitA ==
  \/ \E p \in 1..MaxPrice, rsi \in {20, 50, 80}, r \in 1..MaxR :
       ScoredAs("strategy_a", PricedFrame(p, rsi), FromInt(r))
  \/ \E p \in 1..MaxPrice, rsi \in {20, 50, 80}, stage \in {"scored_full", "scored_lambda"} :
       ScoredAs(stage, PricedFrame(p, rsi), DefaultRiskReward)
  \/ ScoredAs("strategy_a", <<>>, DefaultRiskReward)

(* generate_entry_exit_points(df, risk_reward_ratio) called on the strategy
   frame of the first coin *)
ReturnPoints(pts) ==
  entry_exit' = [c \in CoinSet |-> IF c = COINS[1] /\ pts # <<>> THEN File(ToCsv(pts)) ELSE NoFile]

CallGenerateEntryExitPoints ==
  /\ pc = "strategy_a"
  /\ ReturnPoints(GenerateEntryExitPoints(StrategyFrame(COINS[1]), rr))
  /\ pc' = "returned_a"
  /\ UNCHANGED <<analysis, strategies, signals_df, points_df, rr, strategyB, account, outbox, staging>>

NextA ==
  \/ CallGenerateEntryExitPoints
  \/ GenerateAllEntryExitPoints
  \/ LambdaEntryExitPoints

SpecA == InitA /\ [][NextA]_vars

(* what Strategy A produced in this state: the latest row of each entry/exit
   frame and each row of the lambda's summary *)
Outcomes ==
  {[price |-> r.close, side |-> SignalLabel(r.composite_signal), entry_point |-> r.entry_point,
    stop_loss |-> r.stop_loss, exit_point |-> r.exit_point,
    risk_reward_ratio |-> r.risk_reward_ratio] :
     r \in {Latest(ReadCsv(entry_exit[c].df)) : c \in {d \in CoinSet : entry_exit[d].present}}}
  \cup
  (IF pc = "points_lambda"
   THEN {[price |-> points_df[i].price, side |-> points_df[i].signal,
          entry_point |-> points_df[i].entry_point, stop_loss |-> points_df[i].stop_loss,
          exit_point |-> points_df[i].exit_point,
          risk_reward_ratio |-> points_df[i].risk_reward_ratio] : i \in 1..Len(points_df)}
   ELSE {})

Reward(o) == FAbs(FSub(o.exit_point, o.entry_point))
Risk(o) == FAbs(FSub(o.entry_point, o.stop_loss))

Ordered(o) ==
  /\ o.side = "BUY" => FLt(o.stop_loss, o.entry_point) /\ FLt(o.entry_point, o.exit_point)
  /\ o.side = "SELL" => FLt(o.exit_point, o.entry_point) /\ FLt(o.entry_point, o.stop_loss)

(* 2^-40 *)
Tolerance == FDiv(FDiv(One, FromInt(2^20)), FromInt(2^20))

(* C5 as stated: BUY gives stop_loss < entry_point < exit_point, SELL gives
   exit_point < entry_point < stop_loss, and |exit_point - entry_point| ==
   R * |entry_point - stop_loss| exactly *)
C5_ExactRatio ==
  \A o \in Outcomes : o.side # "HOLD" =>
    Ordered(o) /\ FEq(Reward(o), FMul(rr, Risk(o)))

(* C5 amended: for prices 1..MaxPrice and ratios 1..MaxR the ordering holds,
   and |exit_point - entry_point| differs from R * |entry_point - stop_loss|
   by no more than 2^-40 of itself *)
C5_RatioWithinRounding ==
  \A o \in Outcomes : o.side # "HOLD" =>
    /\ Ordered(o)
    /\ FLe(FAbs(FSub(Reward(o), FMul(rr, Risk(o)))), FMul(Tolerance, Reward(o)))

(* a BUY at price 15 with R = 5, where the two sides differ in the last bit *)
C5_Witness ==
  /\ pc = "returned_a"
  /\ rr = FromInt(5)
  /\ \E o \in Outcomes :
       /\ o.side = "BUY" /\ o.price = FromInt(15)
       /\ FLt(o.stop_loss, o.entry_point) /\ FLt(o.entry_point, o.exit_point)
       /\ FNe(Reward(o), FMul(rr, Risk(o)))

(* C6: BUY: entry = price * 0.99, stop_loss = entry * 0.98, exit = entry +
   R * (entry - stop_loss); SELL: entry = price * 1.01, stop_loss = entry *
   1.02, exit = entry - R * (stop_loss - entry); risk_reward_ratio = R is
   carried; price 100 with R = 5 gives a BUY entry 99.0, stop_loss 97.02 and
   exit 108.90 to the cent *)
C6_StrategyAArithmetic ==
  \A o \in Outcomes :
    /\ o.side = "BUY" =>
         /\ FEq(o.entry_point, FMul(o.price, Dec(99, 100)))
         /\ FEq(o.stop_loss, FMul(o.entry_point, Dec(98, 100)))
         /\ FEq(o.exit_point,
                FAdd(o.entry_point, FMul(FSub(o.entry_point, o.stop_loss), rr)))
    /\ o.side = "SELL" =>
         /\ FEq(o.entry_point, FMul(o.price, Dec(101, 100)))
         /\ FEq(o.stop_loss, FMul(o.entry_point, Dec(102, 100)))
         /\ FEq(o.exit_point,
                FSub(o.entry_point, FMul(FSub(o.stop_loss, o.entry_point), rr)))
    /\ o.side # "HOLD" => FEq(o.risk_reward_ratio, rr)
    /\ (o.side = "BUY" /\ o.price = Hundred /\ rr = DefaultRiskReward) =>
         /\ FEq(o.entry_point, FromInt(99))
         /\ FEq(o.stop_loss, Dec(9702, 100))
         /\ FLt(FAbs(FSub(o.exit_point, Dec(1089, 10))), Dec(5, 1000))

(* the BUY at price 100 with the default ratio *)
C6_Witness ==
  /\ pc \in {"returned_a", "points_full", "points_lambda"}
  /\ rr = DefaultRiskReward
  /\ \E o \in Outcomes :
       /\ o.side = "BUY" /\ o.price = Hundred
       /\ FEq(o.entry_point, FromInt(99))
       /\ FEq(o.risk_reward_ratio, DefaultRiskReward)

(***************************************************************************)
(* Strategy B: Donchian breakout behind an ADX gate, ATR-based sizing      *)
(***************************************************************************)

LEVERAGE == 10
DONCHIAN_PERIOD == 20
ADX_PERIOD == 14
ADX_THRESHOLD == 25
ATR_PERIOD == 14
ATR_MULTIPLIER_SL == Dec(15, 10)
ATR_MULTIPLIER_TP == FromInt(3)
POSITION_SIZE_PERCENT == Dec(4, 100)

(* max / min of a column over the window of rows ending at row i *)
RECURSIVE WindowMax(_, _, _, _)
WindowMax(df, col, i, window) ==
  IF window = 1 THEN df[i][col]
  ELSE LET m == WindowMax(df, col, i - 1, window - 1)
       IN IF FGt(df[i][col], m) THEN df[i][col] ELSE m

RECURSIVE WindowMin(_, _, _, _)
WindowMin(df, col, i, window) ==
  IF window = 1 THEN df[i][col]
  ELSE LET m == WindowMin(df, col, i - 1, window - 1)
       IN IF FLt(df[i][col], m) THEN df[i][col] ELSE m

(* a channel over the window bars before bar i, the current bar left out *)
RollingMaxPrior(df, col, i, window) ==
  IF i <= window THEN FNaN ELSE WindowMax(df, col, i - 1, window)

(* Series.rolling(window).max() / .min(): NaN until the window is full *)
RollingMax(df, col, i, window) == IF i < window THEN FNaN ELSE WindowMax(df, col, i, window)
RollingMin(df, col, i, window) == IF i < window THEN FNaN ELSE WindowMin(df, col, i, window)

(* the kline strings as floats *)
AsFloat(klines) ==
  [i \in 1..Len(klines) |->
     [OpenTime |-> i, High |-> FromInt(klines[i].High), Low |-> FromInt(klines[i].Low),
      Close |-> FromInt(klines[i].Close)]]

(* indicators that write the channel over the High and Low columns they read *)
CalculateIndicatorsInPlace(df, adx, atr) ==
  [i \in 1..Len(df) |->
     [OpenTime |-> df[i].OpenTime,
      High |-> RollingMax(df, "High", i, DONCHIAN_PERIOD),
      Low |-> RollingMin(df, "Low", i, DONCHIAN_PERIOD),
      Close |-> df[i].Close,
      DonchianHigh |-> RollingMax(df, "High", i, DONCHIAN_PERIOD),
      DonchianLow |-> RollingMin(df, "Low", i, DONCHIAN_PERIOD),
      ADX |-> IF i >= 2 * ADX_PERIOD THEN adx ELSE FNaN,
      ATR |-> IF i >= ATR_PERIOD + 1 THEN atr ELSE FNaN]]

(* calculate_indicators(df): the Donchian channel includes the current bar;
   talib.ADX has 2 * timeperiod - 1 bars of lookback and talib.ATR has
   timeperiod, with NaN before that; adx and atr stand for the values talib
   computes once it has enough bars *)
CalculateIndicatorsOf(df, adx, atr) ==
  [i \in 1..Len(df) |->
     [OpenTime |-> df[i].OpenTime, High |-> df[i].High, Low |-> df[i].Low,
      Close |-> df[i].Close,
      DonchianHigh |-> RollingMax(df, "High", i, DONCHIAN_PERIOD),
      DonchianLow |-> RollingMin(df, "Low", i, DONCHIAN_PERIOD),
      ADX |-> IF i >= 2 * ADX_PERIOD THEN adx ELSE FNaN,
      ATR |-> IF i >= ATR_PERIOD + 1 THEN atr ELSE FNaN]]

(* the breakout test of generate_signal on the last two rows, behind the
   gate "latest ADX < ADX_THRESHOLD -> None"; <<>> is None *)
SignalOf(latest, prev) ==
  IF FLt(latest.ADX, FromInt(ADX_THRESHOLD)) THEN <<>>
  ELSE IF FGt(latest.Close, latest.DonchianHigh) /\ FLe(prev.Close, prev.DonchianHigh)
  THEN <<[timestamp |-> latest.OpenTime, price |-> latest.Close, signal |-> "BUY",
          atr |-> latest.ATR]>>
  ELSE IF FLt(latest.Close, latest.DonchianLow) /\ FGe(prev.Close, prev.DonchianLow)
  THEN <<[timestamp |-> latest.OpenTime, price |-> latest.Close, signal |-> "SELL",
          atr |-> latest.ATR]>>
  ELSE <<>>

(* a sizing that divides by the signed stop distance *)
PositionSizeSigned(b, entry_price, stop_loss) ==
  FDiv(FMul(FMul(FromInt(b), POSITION_SIZE_PERCENT), FromInt(LEVERAGE)),
       FSub(entry_price, stop_loss))

(* risk_amount = balance * POSITION_SIZE_PERCENT;
   position_size = (risk_amount * LEVERAGE) / abs(entry_price - stop_loss) *)
PositionSize(b, entry_price, stop_loss) ==
  FDiv(FMul(FMul(FromInt(b), POSITION_SIZE_PERCENT), FromInt(LEVERAGE)),
       FAbs(FSub(entry_price, stop_loss)))

(* trade parameters that place stop and target as for a BUY on either side *)
TradeParametersAsBuy(sig, b) ==
  [entry_price |-> sig.price,
   stop_loss |-> FSub(sig.price, FMul(ATR_MULTIPLIER_SL, sig.atr)),
   take_profit |-> FAdd(sig.price, FMul(ATR_MULTIPLIER_TP, sig.atr)),
   position_size |->
     PositionSize(b, sig.price, FSub(sig.price, FMul(ATR_MULTIPLIER_SL, sig.atr))),
   balance |-> b]

(* generate_trade_parameters(signal, balance) *)
TradeParametersOf(sig, b) ==
  LET entry_price == sig.price
      stop_loss == IF sig.signal = "BUY"
                   THEN FSub(entry_price, FMul(ATR_MULTIPLIER_SL, sig.atr))
                   ELSE FAdd(entry_price, FMul(ATR_MULTIPLIER_SL, sig.atr))
      take_profit == IF sig.signal = "BUY"
                     THEN FAdd(entry_price, FMul(ATR_MULTIPLIER_TP, sig.atr))
                     ELSE FSub(entry_price, FMul(ATR_MULTIPLIER_TP, sig.atr))
  IN [entry_price |-> entry_price, stop_loss |-> stop_loss, take_profit |-> take_profit,
      position_size |-> PositionSize(b, entry_price, stop_loss), balance |-> b]

(* the fetched klines: a run of identical bars, then the last two, whose
   close the exchange is trusted, not checked, to keep inside the bar *)
QuietBar == [High |-> 10, Low |-> 8, Close |-> 9]
Closes == {6, 9, 12}
Lengths ==
  {0, 1, 2, DONCHIAN_PERIOD, DONCHIAN_PERIOD + 1, 2 * ADX_PERIOD - 1, 2 * ADX_PERIOD}
(* bars that widen the range of the series, close inside the bar *)
BreakoutBars ==
  {[High |-> 12, Low |-> 8, Close |-> 12], [High |-> 12, Low |-> 8, Close |-> 11],
   [High |-> 10, Low |-> 6, Close |-> 6]}
LastBars == {[QuietBar EXCEPT !.Close = c] : c \in Closes} \cup BreakoutBars
Klines(n, prev, latest) ==
  [i \in 1..n |-> IF i = n THEN latest ELSE IF i = n - 1 THEN prev ELSE QuietBar]
AdxValues == {20, 25, 30}
AtrValues == {0, 2}
Balances == {0, INITIAL_BALANCE, 2 * INITIAL_BALANCE}

(* for i, threshold in enumerate(PHASE_THRESHOLDS, 1): the first i with
   balance < threshold, else len(PHASE_THRESHOLDS) *)
RECURSIVE PhaseFromInclusive(_, _)
(* a lookup that takes balance <= threshold for a match *)
PhaseFromInclusive(b, i) ==
  IF i > Len(PHASE_THRESHOLDS) THEN Len(PHASE_THRESHOLDS)
  ELSE IF b <= PHASE_THRESHOLDS[i] THEN i
  ELSE PhaseFromInclusive(b, i + 1)

RECURSIVE PhaseFrom(_, _)
PhaseFrom(b, i) ==
  IF i > Len(PHASE_THRESHOLDS) THEN Len(PHASE_THRESHOLDS)
  ELSE IF b < PHASE_THRESHOLDS[i] THEN i
  ELSE PhaseFrom(b, i + 1)

PhaseWith(i, factors) == [phase |-> i, lot_factor |-> factors[i]]

(* get_phase(balance): (phase_number, lot_factor) *)
GetPhase(b, factors) == PhaseWith(PhaseFrom(b, 1), factors)

(* the lot factors a deployment configures: the shipped table, and one whose
   tiers differ *)
LotFactorTables == {PHASE_LOT_FACTOR, <<FromInt(1), FromInt(2), FromInt(3)>>}

(* the pipeline stages have not been run *)
IdlePipeline ==
  /\ analysis = NoFiles /\ strategies = NoFiles /\ signals_df = <<>>
  /\ entry_exit = NoFiles /\ points_df = <<>> /\ rr = DefaultRiskReward

InitB ==
  /\ pc = "fetched"
  /\ \E n \in Lengths, prev \in LastBars, latest \in LastBars : bars = Klines(n, prev, latest)
  /\ frame = <<>>
  /\ signal = <<>>
  /\ trade = <<>>
  /\ lot_factor \in LotFactorTables
  /\ phase = <<>>
  /\ balance = INITIAL_BALANCE
  /\ IdleStaging
  /\ IdlePipeline

pipeline == <<analysis, strategies, signals_df, entry_exit, points_df, rr>>

(* fetch_ohlc_data's tail: astype(float), then calculate_indicators *)
CalculateIndicators ==
  /\ pc = "fetched"
  /\ \E adx \in AdxValues, atr \in AtrValues :
       frame' = CalculateIndicatorsOf(AsFloat(bars), FromInt(adx), FromInt(atr))
  /\ pc' = "indicators"
  /\ UNCHANGED <<bars, signal, trade, pipeline, account, outbox, staging>>

(* what talib computed for the bars of df: talib.ADX and talib.ATR are
   functions of High, Low and Close, so on the same bars they return the
   values the frame already holds (NaN on a series shorter than the lookback) *)
TalibValue(df, col) == IF df = <<>> THEN FNaN ELSE df[Len(df)][col]

(* calculate_indicators applied to the frame it returned *)
CalculateIndicatorsAgain ==
  /\ pc = "indicators"
  /\ frame' = CalculateIndicatorsOf(frame, TalibValue(frame, "ADX"), TalibValue(frame, "ATR"))
  /\ pc' = "indicators_twice"
  /\ UNCHANGED <<bars, signal, trade, pipeline, account, outbox, staging>>

(* generate_signal(df): None for an empty frame; df.iloc[-2] raises
   IndexError on a one-row frame *)
GenerateSignal ==
  /\ pc = "indicators"
  /\ IF frame = <<>>
     THEN signal' = <<>> /\ pc' = "no_signal"
     ELSE IF Len(frame) = 1
     THEN signal' = <<>> /\ pc' = "IndexError"
     ELSE /\ signal' = SignalOf(frame[Len(frame)], frame[Len(frame) - 1])
          /\ pc' = IF signal' = <<>> THEN "no_signal" ELSE "signalled"
  /\ UNCHANGED <<bars, frame, trade, pipeline, account, outbox, staging>>

(* generate_trade_parameters(signal, balance) on a signal that fired *)
GenerateTradeParameters ==
  /\ pc = "signalled"
  /\ \E b \in Balances : trade' = <<TradeParametersOf(signal[1], b)>>
  /\ pc' = "traded"
  /\ UNCHANGED <<bars, frame, signal, pipeline, account, outbox, staging>>

NextB ==
  \/ CalculateIndicators
  \/ CalculateIndicatorsAgain
  \/ GenerateSignal
  \/ GenerateTradeParameters

SpecB == InitB /\ [][NextB]_vars

(***************************************************************************)
(* Properties of Strategy B                                                *)
(***************************************************************************)

AdxOfLatest == frame[Len(frame)].ADX

(* C8 as stated: generate_signal returns a signal only when the latest ADX
   is available and >= ADX_THRESHOLD; with the ADX below the threshold or not
   yet available it returns no signal, whatever the Donchian conditions *)
C8_AdxGate ==
  signal # <<>> => ~IsNaN(AdxOfLatest) /\ FGe(AdxOfLatest, FromInt(ADX_THRESHOLD))

(* C9 as stated: on a series of 0 or 1 bars generate_signal returns no
   signal and does not raise *)
C9_ShortSeriesTolerated ==
  Len(bars) < 2 => pc # "IndexError"

(* C10: position_size is (balance * POSITION_SIZE_PERCENT * LEVERAGE) /
   |entry_price - stop_loss|, and is > 0 whenever balance > 0 and
   entry_price # stop_loss, for BUY and for SELL *)
C10_PositionSize ==
  trade # <<>> =>
    LET t == trade[1]
    IN /\ t.position_size =
            FDiv(FMul(FMul(FromInt(t.balance), Dec(4, 100)), FromInt(10)),
                 FAbs(FSub(t.entry_price, t.stop_loss)))
       /\ (t.balance > 0 /\ FNe(t.entry_price, t.stop_loss)) => FGt(t.position_size, FZero)

(* a SELL sized at 15000 * 0.04 * 10 / 3 = 2000 *)
C10_Witness ==
  /\ pc = "traded"
  /\ signal[1].signal = "SELL"
  /\ trade[1].balance = INITIAL_BALANCE
  /\ FGt(trade[1].stop_loss, trade[1].entry_price)
  /\ FEq(trade[1].position_size, FromInt(2000))


(* C11 as stated: the position_size generate_trade_parameters delivers is
   the unscaled risk-based size multiplied exactly once by the lot factor of
   the phase get_phase returns for the balance *)
C11_PhaseScaledOnce ==
  trade # <<>> =>
    trade[1].position_size =
      FMul(PositionSize(trade[1].balance, trade[1].entry_price, trade[1].stop_loss),
           GetPhase(trade[1].balance, lot_factor).lot_factor)


(* C23: calculate_indicators applied to the frame it returned gives the same
   rows again: it reads only the raw columns, which it leaves as they were,
   and keeps nothing between calls *)
C23_IndicatorsIdempotent ==
  [][pc' = "indicators_twice" => frame' = frame]_vars

(* a second application on a series long enough for the channel, the ATR
   and the ADX *)
C23_Witness ==
  /\ pc = "indicators_twice"
  /\ Len(frame) >= 2 * ADX_PERIOD
  /\ ~IsNaN(frame[Len(frame)].DonchianHigh)
  /\ ~IsNaN(frame[Len(frame)].ADX)
  /\ IsNaN(frame[1].DonchianHigh)

(* Low <= Close <= High on every bar *)
WellFormed(klines) ==
  \A i \in 1..Len(klines) :
    klines[i].Low <= klines[i].Close /\ klines[i].Close <= klines[i].High

(* C30: the Donchian channel of calculate_indicators includes the current
   bar, so on a series of bars with Low <= Close <= High the latest Close is
   neither above DonchianHigh nor below DonchianLow, and generate_signal
   returns no signal whatever the ADX *)
C30_NoBreakoutOnWellFormed ==
  WellFormed(bars) =>
    /\ signal = <<>>
    /\ frame # <<>> =>
         /\ ~FGt(frame[Len(frame)].Close, frame[Len(frame)].DonchianHigh)
         /\ ~FLt(frame[Len(frame)].Close, frame[Len(frame)].DonchianLow)

(* a series long enough for every indicator whose latest bar closes on a new
   high, with the ADX over the threshold: no signal *)
C30_Witness ==
  /\ pc = "no_signal"
  /\ WellFormed(bars)
  /\ Len(bars) >= 2 * ADX_PERIOD
  /\ bars[Len(bars)] = [High |-> 12, Low |-> 8, Close |-> 12]
  /\ bars[Len(bars) - 1] = QuietBar
  /\ FGe(AdxOfLatest, FromInt(ADX_THRESHOLD))
  /\ FEq(frame[Len(frame)].DonchianHigh, FromInt(12))

(* C20 as stated: with an ATR of 0, so that stop_loss == entry_price,
   generate_trade_parameters delivers a defined, finite position_size *)
C20_DegenerateAtrDefined ==
  (trade # <<>> /\ IsZero(signal[1].atr)) =>
    /\ FEq(trade[1].stop_loss, trade[1].entry_price)
    /\ trade[1].position_size.k = "num"

(***************************************************************************)
(* generate_trade_parameters over a range of prices and ATRs               *)
(***************************************************************************)

(* prices 0.1 .. MaxTicks / 10 and ATRs 0.0 .. MaxAtrTicks / 10 *)
MaxTicks == 30
MaxAtrTicks == 10

(* a signal as generate_signal hands it over *)
SignalAt(side, p, a) ==
  [timestamp |-> 1, price |-> Dec(p, 10), signal |-> side, atr |-> Dec(a, 10)]

InitParams ==
  /\ pc = "signalled"
  /\ \E side \in {"BUY", "SELL"}, p \in 1..MaxTicks, a \in 0..MaxAtrTicks :
       signal = <<SignalAt(side, p, a)>>
  /\ bars = <<>> /\ frame = <<>> /\ trade = <<>>
  /\ IdleAccount
  /\ IdleStaging
  /\ IdlePipeline

NextParams == GenerateTradeParameters

SpecParams == InitParams /\ [][NextParams]_vars

StopDistance(t) == FAbs(FSub(t.entry_price, t.stop_loss))
TargetDistance(t) == FAbs(FSub(t.take_profit, t.entry_price))

(* the stop and the target as generate_trade_parameters writes them, and
   each on its side of the entry *)
Placed(side, atr, t) ==
  /\ side = "BUY" =>
       /\ FEq(t.stop_loss, FSub(t.entry_price, FMul(ATR_MULTIPLIER_SL, atr)))
       /\ FEq(t.take_profit, FAdd(t.entry_price, FMul(ATR_MULTIPLIER_TP, atr)))
       /\ FLt(t.stop_loss, t.entry_price) /\ FLt(t.entry_price, t.take_profit)
  /\ side = "SELL" =>
       /\ FEq(t.stop_loss, FAdd(t.entry_price, FMul(ATR_MULTIPLIER_SL, atr)))
       /\ FEq(t.take_profit, FSub(t.entry_price, FMul(ATR_MULTIPLIER_TP, atr)))
       /\ FLt(t.take_profit, t.entry_price) /\ FLt(t.entry_price, t.stop_loss)

(* C28 as stated: for ATR > 0 a BUY gives stop_loss = entry - 1.5 x ATR <
   entry < take_profit = entry + 3.0 x ATR, a SELL the mirror image, and the
   target distance is exactly ATR_MULTIPLIER_TP / ATR_MULTIPLIER_SL times the
   stop distance *)
C28_ExactDistance ==
  (trade # <<>> /\ FGt(signal[1].atr, FZero)) =>
    /\ Placed(signal[1].signal, signal[1].atr, trade[1])
    /\ FEq(TargetDistance(trade[1]),
           FMul(FDiv(ATR_MULTIPLIER_TP, ATR_MULTIPLIER_SL), StopDistance(trade[1])))

(* C28 amended: for prices 0.1 .. MaxTicks / 10 and ATRs 0.1 .. MaxAtrTicks
   / 10 the stop and the target are placed as stated, each on its side of
   the entry, and the target distance differs from twice the stop distance
   by no more than 2^-40 of itself *)
C28_DistanceWithinRounding ==
  (trade # <<>> /\ FGt(signal[1].atr, FZero)) =>
    /\ Placed(signal[1].signal, signal[1].atr, trade[1])
    /\ FLe(FAbs(FSub(TargetDistance(trade[1]),
                     FMul(FDiv(ATR_MULTIPLIER_TP, ATR_MULTIPLIER_SL),
                          StopDistance(trade[1])))),
           FMul(Tolerance, TargetDistance(trade[1])))

(* a BUY at 0.2 with an ATR of 0.1: the stop is 0.04999999999999999, the
   target 0.5, and the two distances are not in the ratio 2 to the last bit *)
C28_Witness ==
  /\ pc = "traded"
  /\ signal[1] = SignalAt("BUY", 2, 1)
  /\ FLt(trade[1].stop_loss, trade[1].entry_price)
  /\ FLt(trade[1].entry_price, trade[1].take_profit)
  /\ FNe(TargetDistance(trade[1]), FMul(FromInt(2), StopDistance(trade[1])))

(***************************************************************************)
(* get_phase over a range of balances                                      *)
(***************************************************************************)

BalanceStep == 500
MaxSteps == 120

(* balances on a grid, and the ones next to each threshold *)
PhaseBalances ==
  {i * BalanceStep : i \in 0..MaxSteps}
  \cup UNION {{PHASE_THRESHOLDS[i] - 1, PHASE_THRESHOLDS[i], PHASE_THRESHOLDS[i] + 1} :
                i \in 1..Len(PHASE_THRESHOLDS)}

InitPhase ==
  /\ pc = "balance_loaded"
  /\ balance \in PhaseBalances
  /\ lot_factor \in LotFactorTables
  /\ phase = <<>>
  /\ bars = <<>> /\ frame = <<>> /\ signal = <<>> /\ trade = <<>>
  /\ IdleStaging
  /\ IdlePipeline

(* get_phase(balance) *)
CallGetPhase ==
  /\ pc = "balance_loaded"
  /\ phase' = <<GetPhase(balance, lot_factor)>>
  /\ pc' = "phase_known"
  /\ UNCHANGED <<pipeline, strategyB, lot_factor, balance, outbox, staging>>

NextPhase == CallGetPhase

SpecPhase == InitPhase /\ [][NextPhase]_vars

Below(b) == {i \in 1..Len(PHASE_THRESHOLDS) : b < PHASE_THRESHOLDS[i]}

(* C12: get_phase returns the 1-based index of the first threshold of
   [25000, 40000, 50000] with balance < threshold and that index's lot
   factor, the final tier 3 when balance >= every threshold; 30000 gives
   phase 2; the phase is in 1..3 and non-decreasing in balance *)
C12_GetPhase ==
  pc = "phase_known" =>
    /\ PHASE_THRESHOLDS = <<25000, 40000, 50000>>
    /\ phase[1].phase \in 1..3
    /\ IF Below(balance) = {} THEN phase[1].phase = 3
       ELSE phase[1].phase \in Below(balance)
            /\ \A j \in Below(balance) : phase[1].phase <= j
    /\ phase[1].lot_factor = lot_factor[phase[1].phase]
    /\ balance = 30000 => phase[1].phase = 2
    /\ \A b \in PhaseBalances : b >= balance => PhaseFrom(b, 1) >= phase[1].phase

(* the example balance 30000 is in phase 2 *)
C12_Witness ==
  /\ pc = "phase_known"
  /\ balance = 30000
  /\ phase[1].phase = 2
  /\ phase[1].lot_factor = lot_factor[2]


(***************************************************************************)
(* batch_process_cryptocurrencies: three stages of pooled tasks            *)
(***************************************************************************)

required_columns == {"close", "high", "low", "open", "volume"}

(* a raw series with the given columns; df stands for the indicator values
   the ta library computes from its bars *)
Series(columns, df) == [present |-> TRUE, columns |-> columns, df |-> df]

(* what a fetch can come back with: nothing (an API error or an exception;
   an answer without rows has no "time" column and ends in the except
   clause), a full series, a series short of a column *)
Answers ==
  {NoData}
  \cup {Series(required_columns, df) : df \in SideFrames}
  \cup {Series(required_columns \ {col}, <<FlatRow, FlatRow>>) : col \in {"close", "volume"}}

(* the task of a coin in a stage has finished and as_completed has yielded it *)
Collected(stage, c) ==
  futures[stage][c] \notin {"none", "running"} /\ \A i \in 1..Len(completed) : completed[i] # c

(* a loop that stops as soon as no finished future is waiting *)
ExhaustedEarly(stage) == completed = <<>>

(* the as_completed loop of a stage has yielded every future submitted *)
Exhausted(stage) == \A c \in CoinSet : futures[stage][c] = "none" \/ Collected(stage, c)

Submit(stage, coins) ==
  futures' = [futures EXCEPT ![stage] = [c \in CoinSet |-> IF c \in coins THEN "running" ELSE "none"]]

Finish(stage, c, outcome) ==
  /\ futures' = [futures EXCEPT ![stage][c] = outcome]
  /\ completed' = Append(completed, c)

InitBatch ==
  /\ pc = "batch_start"
  /\ IdleStaging
  /\ IdlePipeline
  /\ bars = <<>> /\ frame = <<>> /\ signal = <<>> /\ trade = <<>>
  /\ IdleAccount

(* stage 1: one fetch_crypto_data_batch task per coin *)
SubmitFetch ==
  /\ pc = "batch_start"
  /\ Submit("fetch", CoinSet)
  /\ pc' = "fetch"
  /\ UNCHANGED <<pipeline, strategyB, account, outbox, data, data_results, analysis_results,
                 signal_results, completed, signal_summaries, runs>>

(* fetch_crypto_data_batch(coin): (df, coin), or (None, coin) on an API error
   or an exception *)
FetchTask(c) ==
  /\ futures["fetch"][c] = "running"
  /\ \E answer \in Answers :
       /\ data' = [data EXCEPT ![c] = answer]
       /\ Finish("fetch", c, IF answer.present THEN "returned" ELSE "returned_none")
  /\ UNCHANGED <<pc, pipeline, strategyB, account, outbox, data_results, analysis_results,
                 signal_results, signal_summaries, runs>>

(* for future in as_completed(future_to_coin): keep the frame if it is not None *)
CollectFetch ==
  /\ pc = "fetch"
  /\ completed # <<>>
  /\ data_results' = IF futures["fetch"][Head(completed)] = "returned"
                     THEN data_results \cup {Head(completed)} ELSE data_results
  /\ completed' = Tail(completed)
  /\ UNCHANGED <<pc, pipeline, strategyB, account, outbox, data, analysis_results, signal_results,
                 futures, signal_summaries, runs>>

(* stage 2: one calculate_technical_indicators_batch task per coin of
   data_results, once the stage 1 loop has ended *)
SubmitIndicators ==
  /\ pc = "fetch"
  /\ Exhausted("fetch")
  /\ Submit("indicators", data_results)
  /\ pc' = "indicators"
  /\ UNCHANGED <<pipeline, strategyB, account, outbox, data, data_results, analysis_results,
                 signal_results, completed, signal_summaries, runs>>

(* calculate_technical_indicators_batch((df, coin)): (None, coin) for an empty
   frame; df["close"] raises KeyError without that column; no other column is
   read; the analysis file is written *)
IndicatorsOutcome(series) ==
  IF series.df = <<>> THEN "returned_none"
  ELSE IF "close" \notin series.columns THEN "raised"
  ELSE "returned"

IndicatorTask(c) ==
  /\ futures["indicators"][c] = "running"
  /\ Finish("indicators", c, IndicatorsOutcome(data[c]))
  /\ analysis' = [analysis EXCEPT ![c] =
                    IF IndicatorsOutcome(data[c]) = "returned" THEN File(data[c].df) ELSE @]
  /\ UNCHANGED <<pc, strategies, signals_df, entry_exit, points_df, rr, strategyB, account, outbox,
                 data, data_results, analysis_results, signal_results, signal_summaries, runs>>

(* for future in as_completed(analysis_futures): future.result() re-raises,
   the except clause prints *)
CollectIndicators ==
  /\ pc = "indicators"
  /\ completed # <<>>
  /\ analysis_results' = IF futures["indicators"][Head(completed)] = "returned"
                         THEN analysis_results \cup {Head(completed)} ELSE analysis_results
  /\ completed' = Tail(completed)
  /\ UNCHANGED <<pc, pipeline, strategyB, account, outbox, data, data_results, signal_results,
                 futures, signal_summaries, runs>>

(* stage 3: one generate_trading_signals_batch task per coin of analysis_results *)
SubmitSignals ==
  /\ pc = "indicators"
  /\ Exhausted("indicators")
  /\ Submit("signals", analysis_results)
  /\ pc' = "signals"
  /\ UNCHANGED <<pipeline, strategyB, account, outbox, data, data_results, analysis_results,
                 signal_results, completed, signal_summaries, runs>>

SignalTask(c) ==
  /\ futures["signals"][c] = "running"
  /\ Finish("signals", c, "returned")
  /\ strategies' = [strategies EXCEPT ![c] =
                      File(ToCsv(GenerateTradingSignalsBatch(analysis[c].df, c).rows))]
  /\ UNCHANGED <<pc, analysis, signals_df, entry_exit, points_df, rr, strategyB, account, outbox,
                 data, data_results, analysis_results, signal_results, signal_summaries, runs>>

(* for future in as_completed(signal_futures): keep the frame, append the summary *)
CollectSignals ==
  /\ pc = "signals"
  /\ completed # <<>>
  /\ signal_results' = signal_results \cup {Head(completed)}
  /\ signal_summaries' =
       signal_summaries
       \o GenerateTradingSignalsBatch(analysis[Head(completed)].df, Head(completed)).summary
  /\ completed' = Tail(completed)
  /\ UNCHANGED <<pc, pipeline, strategyB, account, outbox, data, data_results, analysis_results,
                 futures, runs>>

(* signals_df = pd.DataFrame(signal_summaries), ranked unless empty; return
   signal_results, signals_df *)
ReturnBatch ==
  /\ pc = "signals"
  /\ Exhausted("signals")
  /\ signals_df' = SortValues(signal_summaries)
  /\ pc' = "batch_done"
  /\ UNCHANGED <<analysis, strategies, entry_exit, points_df, rr, strategyB, account, outbox, staging>>

NextBatch ==
  \/ SubmitFetch
  \/ \E c \in CoinSet : FetchTask(c)
  \/ CollectFetch
  \/ SubmitIndicators
  \/ \E c \in CoinSet : IndicatorTask(c)
  \/ CollectIndicators
  \/ SubmitSignals
  \/ \E c \in CoinSet : SignalTask(c)
  \/ CollectSignals
  \/ ReturnBatch

SpecBatch == InitBatch /\ [][NextBatch]_vars

(* a signal task finishing, and the main thread taking the next finished
   signal future, told by what they do to futures and completed alone *)
SignalTaskEnds(c) ==
  /\ futures["signals"][c] = "running"
  /\ futures' = [futures EXCEPT !["signals"][c] = "returned"]

SignalCollected ==
  /\ pc = "signals"
  /\ completed # <<>>
  /\ completed' = Tail(completed)

(* the scheduling of the batch: the main thread and the workers of the
   indicator and signal stages take their steps when they can *)
LocalFairness ==
  /\ WF_vars(SubmitFetch) /\ WF_vars(CollectFetch)
  /\ WF_vars(SubmitIndicators) /\ WF_vars(CollectIndicators)
  /\ WF_vars(SubmitSignals) /\ WF_completed(SignalCollected)
  /\ WF_vars(ReturnBatch)
  /\ \A c \in CoinSet : WF_vars(IndicatorTask(c)) /\ WF_futures(SignalTaskEnds(c))

(* the batch under its scheduling; requests.get(url, params=params) carries
   no timeout, so a fetch task finishes only if the API answers *)
SpecBatchLive == InitBatch /\ [][NextBatch]_vars /\ LocalFairness


(***************************************************************************)
(* Properties of the batch                                                 *)
(***************************************************************************)

SummaryCoins == {signals_df[i].coin : i \in 1..Len(signals_df)}

(* the coins whose task returned a frame in every stage *)
Succeeded ==
  {c \in CoinSet : \A s \in Stages : futures[s][c] = "returned"}

(* what batch_process_cryptocurrencies returns: signal_results, signals_df *)
BatchResultCoins == signal_results \cup SummaryCoins

(* C14 as stated: whatever subset of coins fails, the batch completes, the
   ranked summary has exactly one entry per coin that succeeded in every
   stage and none for the others, and the batch result records a failure for
   each failed coin *)
C14_FailureIsolation ==
  pc = "batch_done" =>
    /\ SummaryCoins = Succeeded
    /\ Len(signals_df) = Cardinality(Succeeded)
    /\ \A c \in CoinSet \ Succeeded : c \in BatchResultCoins

(* C15: no task of a stage is submitted before every task of the stage
   before it has finished, and the tasks of a stage are those of the complete
   result map of the stage before it *)
C15_StageJoinBarrier ==
  /\ \A c \in CoinSet : futures["indicators"][c] # "none" =>
       /\ \A d \in CoinSet : futures["fetch"][d] \notin {"none", "running"}
       /\ {d \in CoinSet : futures["indicators"][d] # "none"} = data_results
       /\ data_results = {d \in CoinSet : futures["fetch"][d] = "returned"}
  /\ \A c \in CoinSet : futures["signals"][c] # "none" =>
       /\ \A d \in CoinSet : futures["indicators"][d] # "running"
       /\ {d \in CoinSet : futures["signals"][d] # "none"} = analysis_results
       /\ analysis_results = {d \in CoinSet : futures["indicators"][d] = "returned"}

(* a signals task runs while the other coin, whose fetch finished first and
   failed, has no task *)
C15_Witness ==
  /\ pc = "signals"
  /\ \E c, d \in CoinSet :
       /\ futures["signals"][c] = "running"
       /\ futures["fetch"][d] = "returned_none"
       /\ futures["signals"][d] = "none"

(* the summaries of signal_results in the order of the coin list *)
SummariesInListOrder ==
  LET kept == SelectSeq(COINS, LAMBDA c : c \in signal_results)
  IN [i \in 1..Len(kept) |-> GenerateTradingSignalsBatch(analysis[kept[i]].df, kept[i]).summary[1]]

(* C16 as stated: the ranked summary is the same for every completion order
   of the tasks, ties of label and confidence included: it is the ranking of
   the summaries taken in the order of the coin list *)
C16_OrderIndependent ==
  pc = "batch_done" => signals_df = SortValues(SummariesInListOrder)


(* C29 as stated: batch_process_cryptocurrencies completes, even if a fetch
   task never finishes *)
C29_BatchCompletes ==
  <>(pc = "batch_done")

(* C19 as stated, for the batch variant: a series short of a required raw
   column (close, high, low, open, volume) gets no indicator column and no
   result in the indicator stage, and every coin with a full series is still
   processed *)
C19_SchemaMismatchSkipped ==
  /\ \A c \in CoinSet :
       (data[c].present /\ ~(required_columns \subseteq data[c].columns)) =>
         analysis[c] = NoFile /\ c \notin analysis_results
  /\ pc = "batch_done" =>
       \A c \in CoinSet :
         (data[c].present /\ required_columns \subseteq data[c].columns) => c \in signal_results

(***************************************************************************)
(* The file-based pipeline, run after run over the same directories        *)
(***************************************************************************)

MaxRuns == 2

(* the data file a run finds for a coin: none, one short of a column, a
   full one *)
RunData ==
  {NoData, Series(required_columns \ {"volume"}, <<FlatRow, FlatRow>>)}
  \cup {Series(required_columns, df) : df \in SideFrames}

InitRuns ==
  /\ pc = "idle"
  /\ IdleStaging
  /\ IdlePipeline
  /\ bars = <<>> /\ frame = <<>> /\ signal = <<>> /\ trade = <<>>
  /\ IdleAccount

(* a run starts on whatever data files the collection left *)
StartRun ==
  /\ pc \in {"idle", "complete", "KeyError"}
  /\ runs < MaxRuns
  /\ runs' = runs + 1
  /\ summary_data' = <<>> /\ notify' = "idle" /\ response' = 0
  /\ data' \in [CoinSet -> RunData]
  /\ analysis_results' = {}
  /\ pc' = "collected"
  /\ UNCHANGED <<pipeline, strategyB, account, data_results, signal_results, futures,
                 completed, signal_summaries>>

(* calculate_technical_indicators(df) is not None: the frame has rows and
   every required column *)
CalculateTechnicalIndicators(series) ==
  series.df # <<>> /\ required_columns \subseteq series.columns

Analysed == {c \in CoinSet : data[c].present /\ CalculateTechnicalIndicators(data[c])}

(* analyze_all_coins: per coin with a data file, compute the indicators and
   write the analysis file unless the result is None *)
AnalyzeAllCoins ==
  /\ pc = "collected"
  /\ analysis' = [c \in CoinSet |-> IF c \in Analysed THEN File(data[c].df) ELSE analysis[c]]
  /\ analysis_results' = Analysed
  /\ pc' = "analysed"
  /\ UNCHANGED <<strategies, signals_df, entry_exit, points_df, rr, strategyB, account, outbox, data,
                 data_results, signal_results, futures, completed, signal_summaries, runs>>

(* what requests.post does for the notifier: status 200, another status, or
   an exception *)
PostOutcomes == {"sent", "rejected", "raised"}

(* the dict run_analysis_pipeline builds from a row of points_df *)
PipelineRecord(row) ==
  [coin |-> row.coin, signal |-> row.signal, confidence |-> row.confidence,
   price |-> row.price, entry_point |-> row.entry_point, exit_point |-> row.exit_point]

PipelineRecords(rows) == [i \in 1..Len(rows) |-> PipelineRecord(rows[i])]

(* steps 5 and 6 of run_analysis_pipeline: the charts change nothing the
   later steps read; the report is sent when send_line_notification is set
   and points_df is not empty, and an exception of the client is caught *)
NotifyPipeline ==
  /\ pc = "points_full"
  /\ \E send_line_notification \in BOOLEAN, outcome \in PostOutcomes :
       IF send_line_notification /\ points_df # <<>>
       THEN summary_data' = PipelineRecords(points_df) /\ notify' = outcome
       ELSE summary_data' = <<>> /\ notify' = "skipped"
  /\ pc' = "complete"
  /\ UNCHANGED <<pipeline, strategyB, account, response, staging>>

NextRuns ==
  \/ StartRun
  \/ AnalyzeAllCoins
  \/ CreateTradingStrategies
  \/ GenerateAllEntryExitPoints
  \/ NotifyPipeline

SpecRuns == InitRuns /\ [][NextRuns]_vars

(* the keys of the result map generate_all_entry_exit_points returns *)
PointResults == {c \in CoinSet : strategies[c].present /\ strategies[c].df # <<>>}

(* C18 as stated: in every run, a coin the analysis stage of that run did
   not produce is absent from the results of the strategy stage and of the
   entry/exit stage of that run *)
C18_FailedCoinAbsentLater ==
  /\ pc \in {"scored_full", "points_full"} => SummaryCoins \subseteq analysis_results
  /\ pc = "points_full" => PointResults \subseteq analysis_results

(* C22 as stated: whatever subset of the coins has no analysis file, all of
   them included, create_trading_strategies returns its result map and
   ranked summary and raises nothing *)
C22_StrategiesNeverRaise ==
  pc # "KeyError"

(***************************************************************************)
(* lambda_handler: one run in a fresh temporary directory                  *)
(***************************************************************************)

InitLambda ==
  /\ pc = "invoked"
  /\ IdlePipeline
  /\ IdleB

(* collect_data: per coin inside try/except; a coin is in the result map iff
   the API answered Success with rows *)
CollectData ==
  /\ pc = "invoked"
  /\ data' \in [CoinSet -> Answers]
  /\ data_results' = {c \in CoinSet : data'[c].present}
  /\ pc' = "lambda_collected"
  /\ UNCHANGED <<pipeline, strategyB, account, outbox, analysis_results, signal_results,
                 futures, completed, signal_summaries, runs>>

(* analyze_data: a collected coin short of a required column is skipped, the
   others get their indicator columns and their analysis file *)
AnalyzeData ==
  /\ pc = "lambda_collected"
  /\ LET done == {c \in data_results : required_columns \subseteq data[c].columns}
     IN /\ analysis' = [c \in CoinSet |-> IF c \in done THEN File(data[c].df) ELSE analysis[c]]
        /\ analysis_results' = done
  /\ pc' = "analysed"
  /\ UNCHANGED <<strategies, signals_df, entry_exit, points_df, rr, strategyB, account, outbox,
                 data, data_results, signal_results, futures, completed, signal_summaries, runs>>

(* the dict send_line_notification builds from a row of entry_exit_df *)
LambdaRecord(row) ==
  [coin |-> row.coin, price |-> row.price, signal |-> row.signal,
   confidence |-> row.confidence, entry_point |-> row.entry_point,
   exit_point |-> row.exit_point, stop_loss |-> row.stop_loss]

LambdaRecords(rows) == [i \in 1..Len(rows) |-> LambdaRecord(rows[i])]

(* the statusCode of lambda_handler: 500 from the except branch, else 200 *)
StatusCode(outcome) == IF outcome = "raised" THEN 500 ELSE 200

(* the report leaves as soon as the signals are ranked *)
SendLineNotificationEarly ==
  /\ pc = "scored_lambda"
  /\ \E outcome \in {"unset"} \cup PostOutcomes :
       /\ notify' = outcome
       /\ summary_data' = IF outcome = "unset" THEN <<>> ELSE LambdaRecords(points_df)
       /\ response' = StatusCode(outcome)
  /\ pc' = "returned"
  /\ UNCHANGED <<pipeline, strategyB, account, staging>>

(* send_line_notification and the return of lambda_handler: without the LINE
   settings nothing is sent; else the records of entry_exit_df, empty or
   not, go to send_analysis_report, whose exception reaches the handler's
   except branch *)
SendLineNotification ==
  /\ pc = "points_lambda"
  /\ \E outcome \in {"unset"} \cup PostOutcomes :
       /\ notify' = outcome
       /\ summary_data' = IF outcome = "unset" THEN <<>> ELSE LambdaRecords(points_df)
       /\ response' = StatusCode(outcome)
  /\ pc' = "returned"
  /\ UNCHANGED <<pipeline, strategyB, account, staging>>

NextLambda ==
  \/ CollectData
  \/ AnalyzeData
  \/ GenerateSignals
  \/ LambdaEntryExitPoints
  \/ SendLineNotification

SpecLambda == InitLambda /\ [][NextLambda]_vars

(* C21 as stated: lambda_handler returns 500 when no coin was collected, 200
   only when some coin got through the signal stage, and 500 whenever an
   exception escaped a stage *)
C21_TotalFailureReported ==
  pc = "returned" =>
    /\ data_results = {} => response = 500
    /\ response = 200 => signals_df # <<>>
    /\ notify = "raised" => response = 500

(***************************************************************************)
(* Stage order of a pipeline run                                           *)
(***************************************************************************)

(* the number of stages of FETCH, INDICATORS, SIGNALS, TRADE_PARAMS, NOTIFY
   the run has behind it at position p; NOTIFY counts when it was skipped *)
StagesDone(p) ==
  CASE p \in {"idle", "invoked"} -> 0
    [] p \in {"collected", "lambda_collected"} -> 1
    [] p = "analysed" -> 2
    [] p \in {"scored_full", "scored_lambda", "KeyError"} -> 3
    [] p \in {"points_full", "points_lambda"} -> 4
    [] p \in {"complete", "returned"} -> 5

RunOver(p) == p \in {"complete", "returned", "KeyError"}

(* one step of a run finishes the next stage, or a new run finishes FETCH *)
NextStage ==
  \/ ~RunOver(pc) /\ StagesDone(pc') = StagesDone(pc) + 1
  \/ RunOver(pc) /\ StagesDone(pc') = 1

(* what a stage leaves behind is there only once the stage is behind *)
StageEffects ==
  /\ StagesDone(pc) < 1 => data_results = {} /\ \A c \in CoinSet : ~data[c].present
  /\ StagesDone(pc) < 2 => analysis_results = {}
  /\ StagesDone(pc) >= 2 =>
       analysis_results = {c \in CoinSet : data[c].present
                                           /\ required_columns \subseteq data[c].columns}
  /\ (StagesDone(pc) < 3 /\ runs = 0) => strategies = NoFiles /\ signals_df = <<>>
  /\ (StagesDone(pc) >= 3 /\ pc # "KeyError") =>
       \A c \in analysis_results : strategies[c].present
  /\ (StagesDone(pc) < 4 /\ runs = 0) => points_df = <<>>
  /\ StagesDone(pc) < 5 => notify = "idle" /\ summary_data = <<>>
  /\ (StagesDone(pc) = 5 /\ pc # "KeyError") => notify # "idle"

(* C25: in lambda_handler and run_analysis_pipeline the stages FETCH,
   INDICATORS, SIGNALS, TRADE_PARAMS, NOTIFY are gone through in this order,
   one at a time, each for the whole batch before the next; nothing is
   handed to the notifier before TRADE_PARAMS is behind, and the only stage
   a run that returns may leave out is NOTIFY *)
C25_StageSequence ==
  [](StageEffects) /\ [][NextStage]_vars

(* a lambda run that went through all five stages and sent a report *)
C25_Witness ==
  /\ pc = "returned" /\ notify = "sent" /\ summary_data # <<>>
  /\ analysis_results # {} /\ points_df # <<>>

(***************************************************************************)
(* Properties of the notifier's input                                      *)
(***************************************************************************)

NotifierFields ==
  {"coin", "price", "signal", "confidence", "entry_point", "exit_point", "stop_loss"}

(* C24 as stated: every record handed to the notifier, by run_analysis_pipeline
   as by the lambda, carries coin, price, signal, confidence, entry_point,
   exit_point and stop_loss, and the records are in ranked order *)
C24_NotifierRecords ==
  /\ \A i \in DOMAIN summary_data : NotifierFields \subseteq DOMAIN summary_data[i]
  /\ \A i, j \in DOMAIN summary_data :
       i < j => ~SortsBefore(summary_data[j], summary_data[i])

====
